---- MODULE Spec2Model ----
(***************************************************************************)
(* State-machine model of lock-trace: the call-path tracer                 *)
(* (lock_trace/call_tracer.py), the symbol-query collaborator it reads     *)
(* (lock_trace/cscope_interface.py) and the lock-context analyzer          *)
(* (lock_trace/lock_analyzer.py).                                          *)
(*                                                                         *)
(* The cscope database is a list of call sites.  Every recursive call of   *)
(* a traversal is one step; the collaborator queries are the suspension    *)
(* points between steps.                                                   *)
(***************************************************************************)
EXTENDS Integers, Sequences, FiniteSets, TLC

VARIABLES
    sites,                \* cscope database: call sites, in cscope's output order
    assigns,              \* cscope database: callback assignments (.operation = function)
    enable_callback_search, \* CallTracer.enable_callback_search
    defFile,              \* function -> Some(file of its definition), or None
    op,                   \* the tracer operation being run
    target,               \* target_function / source_function / from_function
    to_function,          \* find_call_paths: to_function
    roots,                \* get_function_depth_map: root_functions
    max_depth,            \* the max_depth argument (None or an integer)
    exclude_functions,    \* the exclude_functions argument
    exclude_directories,  \* the exclude_directories argument
    stack,                \* active _trace_recursive / _find_paths_recursive frames
    visited,              \* trace_callers / trace_callees: the closure's visited set
    paths,                \* the closure's paths accumulator
    depth_map,            \* get_function_depth_map: depth_map
    queue,                \* get_function_depth_map: queue
    result,               \* value returned by the operation
    pc,                   \* position in the operation
    call_path,            \* _analyze_path_locks: call_path.functions
    target_locks,         \* _analyze_path_locks: target_locks (None is the empty list)
    walk_i,               \* _analyze_path_locks: index of the path function to scan next
    held_locks,           \* _analyze_path_locks: held_locks
    protected_by_locks,   \* _analyze_path_locks: protected_by_locks
    all_operations,       \* _analyze_path_locks: all_operations
    unique_only,          \* analyze_lock_context: unique_only
    call_paths,           \* analyze_lock_context: call_paths
    contexts,             \* analyze_lock_context: contexts
    timed_out,            \* the queries the symbol database does not answer in time
    other,                \* a second top-level invocation, suspended at an await
    call_graph,           \* CallTracer._call_graph
    returned_graphs,      \* build_call_graph: the graphs returned so far, as returned
    command,              \* the CLI command being run
    invoked               \* the tracer and analyzer operations the command invoked

vars == <<sites, assigns, enable_callback_search, defFile, op, target, to_function, roots, max_depth,
          exclude_functions, exclude_directories, stack, visited, paths,
          depth_map, queue, result, pc, call_path, target_locks, walk_i,
          held_locks, protected_by_locks, all_operations, unique_only,
          call_paths, contexts, timed_out, other, call_graph, returned_graphs,
          command, invoked>>

(***************************************************************************)
(* Bounds and input domains                                                *)
(***************************************************************************)
MaxSites == 3
MaxDepth == 1
MaxFindSites == 4
MaxRoots == 2
MaxLiveSites == 2
MaxQueueDepth == 5
MaxLockSites == 3
MaxContextSites == 4
MaxTimeoutSites == 3
MaxPairSites == 3
MaxCliSites == 3
MaxCallbackSites == 3
MaxAssigns == 2
MaxGraphSites == 2
MaxGraphCalls == 2
MaxSummarySites == 4
self_max_depth == 10

\* Optional values: None is the empty sequence, a value v is Some(v).
None == <<>>
Some(v) == <<v>>

\* Function names, in Python's string order.
NameOrder == <<"A", "B", "C", "T">>
Funcs == {"A", "B", "T"}
\* The root lists of build_call_graph.
RootLists == { <<"A">>, <<"B">>, <<"T">>, <<"A", "T">>, <<"T", "T">> }

\* File paths and directory names.
InternetFile == "internet/a.c"
FsFile == "fs/b.c"
NetDir == "net"
FsDir == "fs"
DriversDir == "drivers"

\* Answers of find_function_definition: Some(file), or None when unresolved.
DefMapA == [f \in {"A", "B", "C", "T"} |->
               CASE f = "A" -> Some(InternetFile)
                 [] f = "B" -> Some(FsFile)
                 [] OTHER -> None]

DefMapT == [f \in {"A", "B", "C", "T"} |->
               CASE f = "T" -> Some(InternetFile)
                 [] f = "B" -> Some(FsFile)
                 [] OTHER -> None]

\* (definitions, exclude_functions, exclude_directories) cases.
Exclusions == { <<DefMapA, {}, {}>>,
                <<DefMapA, {"B"}, {}>>,
                <<DefMapA, {"T"}, {}>>,
                <<DefMapA, {}, {NetDir}>>,
                <<DefMapT, {}, {NetDir}>>,
                <<DefMapA, {"A"}, {FsDir, DriversDir}>> }

\* The queried function of the trace operations.
TraceTargets == {"T"}

SeqsUpTo(S, n) == UNION { [1..k -> S] : k \in 0..n }

\* Call sites "caller calls callee" whose line and text play no role.
CallSites(F) == [caller : F, callee : F, line : {0}, context : {""}]

(***************************************************************************)
(* Sequence helpers                                                        *)
(***************************************************************************)
Range(s) == { s[i] : i \in 1..Len(s) }

Reverse(s) == [i \in 1..Len(s) |-> s[Len(s) + 1 - i]]

\* Python's "x in y" on strings.
Contains(x, y) ==
    \E i \in 1..(Len(y) - Len(x) + 1) : SubSeq(y, i, i + Len(x) - 1) = x

\* Python's y.startswith(x) on strings.
StartsWith(y, x) == Len(x) <= Len(y) /\ SubSeq(y, 1, Len(x)) = x

IsSuffix(p, q) ==
    /\ Len(p) <= Len(q)
    /\ \A k \in 1..Len(p) : q[Len(q) - Len(p) + k] = p[k]

IsPrefix(p, q) ==
    /\ Len(p) <= Len(q)
    /\ \A k \in 1..Len(p) : q[k] = p[k]

NameIndex(n) == CHOOSE i \in 1..Len(NameOrder) : NameOrder[i] = n

\* CallGraph(): no function has an entry in callers or callees.
EmptyCallGraph ==
    [callers |-> [f \in Range(NameOrder) |-> None],
     callees |-> [f \in Range(NameOrder) |-> None]]

\* One operation is called directly on a new tracer: no second invocation,
\* no graph built, no CLI command.
OneDirectCall ==
    /\ other = None
    /\ call_graph = EmptyCallGraph
    /\ returned_graphs = <<>>
    /\ command = ""
    /\ invoked = <<>>

(***************************************************************************)
(* Symbol-query collaborator (cscope_interface.py)                         *)
(***************************************************************************)
\* FunctionCall(function, file, line, context); the file plays no role.
FunctionCall(function, line, context) ==
    [function |-> function, line |-> line, context |-> context]

\* cscope -L -2 f: the calls made in the body of f.
RECURSIVE CalleesOf(_, _)
CalleesOf(db, f) ==
    IF db = <<>> THEN <<>>
    ELSE IF Head(db).caller = f
         THEN <<FunctionCall(Head(db).callee, Head(db).line, Head(db).context)>>
                  \o CalleesOf(Tail(db), f)
         ELSE CalleesOf(Tail(db), f)

\* cscope -L -3 f: the calls of f.
RECURSIVE CallersOf(_, _)
CallersOf(db, f) ==
    IF db = <<>> THEN <<>>
    ELSE IF Head(db).callee = f
         THEN <<FunctionCall(Head(db).caller, Head(db).line, Head(db).context)>>
                  \o CallersOf(Tail(db), f)
         ELSE CallersOf(Tail(db), f)

\* "except asyncio.TimeoutError": the query kind(function) gets no answer
\* within its timeout.
QueryTimesOut(kind, function) == <<kind, function>> \in timed_out

\* raise RuntimeError(f"Cscope query for {function} timed out")
RuntimeError == "RuntimeError: timed out"

\* The answers below are those of a query that does not time out, except
\* where the timeout is handled by returning a value.
get_functions_called_by(f) == CalleesOf(sites, f)

get_functions_calling(f) == CallersOf(sites, f)

\* "except asyncio.TimeoutError: return None"; None as well for a function
\* the database does not know.
find_function_definition(f) ==
    IF QueryTimesOut("definition", f) \/ f \notin DOMAIN defFile
    THEN None
    ELSE defFile[f]

\* "return process.returncode == 0 and bool(stdout.decode().strip())",
\* "except asyncio.TimeoutError: return False"
function_exists(f) ==
    /\ ~QueryTimesOut("exists", f)
    /\ f \in DOMAIN defFile
    /\ defFile[f] # None

RECURSIVE AssignmentsOf(_, _)
AssignmentsOf(as, f) ==
    IF as = <<>> THEN <<>>
    ELSE IF Head(as).function = f
         THEN <<Head(as)>> \o AssignmentsOf(Tail(as), f)
         ELSE AssignmentsOf(Tail(as), f)

find_function_assignments(f) == AssignmentsOf(assigns, f)

\* _is_caller_using_compatible_struct returns True on both of its branches.
is_caller_using_compatible_struct(caller) == TRUE

filter_callers_by_struct_context(callers) ==
    SelectSeq(callers, is_caller_using_compatible_struct)

RECURSIVE CallbackCallers(_)
CallbackCallers(as) ==
    IF as = <<>> THEN <<>>
    ELSE filter_callers_by_struct_context(
             get_functions_calling(Head(as).operation))
             \o CallbackCallers(Tail(as))

\* Variant: the callers through assignments are added to the direct callers.
get_callback_callers_Merged(f) ==
    get_functions_calling(f) \o CallbackCallers(find_function_assignments(f))

get_callback_callers(f) ==
    LET direct_callers == get_functions_calling(f)
    IN  IF direct_callers # <<>> THEN direct_callers
        ELSE CallbackCallers(find_function_assignments(f))

\* The queries get_callback_callers(f) issues, in the order it issues them.
CallbackQueryLog(f) ==
    LET assignments == find_function_assignments(f)
    IN  <<<<"calling", f>>>>
        \o (IF get_functions_calling(f) # <<>> THEN <<>>
            ELSE <<<<"assignments", f>>>>
                 \o [i \in 1..Len(assignments) |->
                        <<"calling", assignments[i].operation>>])

\* The queries get_callback_callers(f) issues when none of them times out.
CallbackQueries(f) ==
    {<<"calling", f>>}
    \cup (IF get_functions_calling(f) # <<>> THEN {}
          ELSE {<<"assignments", f>>}
               \cup { <<"calling", a.operation>> :
                          a \in Range(find_function_assignments(f)) })

(***************************************************************************)
(* CallTracer (call_tracer.py)                                             *)
(***************************************************************************)
CallPath(functions, depth) == [functions |-> functions, depth |-> depth]

\* "if max_depth is None: max_depth = self.max_depth"
EffectiveDepth(d) == IF d = None THEN self_max_depth ELSE d[1]

\* Mutation: only the function at the end of the path is tested.
should_exclude_path_LastOnly(path, ef, ed) ==
    \/ ef # {} /\ path[Len(path)] \in ef
    \/ /\ ed # {}
       /\ LET func_def == find_function_definition(path[Len(path)])
          IN  /\ func_def # None
              /\ func_def[1] # ""
              /\ \E excluded_dir \in ed : Contains(excluded_dir, func_def[1])

\* Mutation: the directory test is file.startswith(dir), not "dir in file".
should_exclude_path_StartsWith(path, ef, ed) ==
    \/ ef # {} /\ \E i \in 1..Len(path) : path[i] \in ef
    \/ /\ ed # {}
       /\ \E i \in 1..Len(path) :
              LET func_def == find_function_definition(path[i])
              IN  /\ func_def # None
                  /\ func_def[1] # ""
                  /\ \E excluded_dir \in ed : StartsWith(func_def[1], excluded_dir)

should_exclude_path(path, ef, ed) ==
    \/ ef # {} /\ \E i \in 1..Len(path) : path[i] \in ef
    \/ /\ ed # {}
       /\ \E i \in 1..Len(path) :
              LET func_def == find_function_definition(path[i])
              IN  /\ func_def # None
                  /\ func_def[1] # ""
                  /\ \E excluded_dir \in ed : Contains(excluded_dir, func_def[1])

\* Callers looked up by trace_callers._trace_recursive.
TraceCallersOf(f) ==
    IF enable_callback_search THEN get_callback_callers(f)
    ELSE get_functions_calling(f)

\* The analyzer operations that start with analyze_lock_context.
IsContextOp ==
    op \in {"analyze_lock_context", "check_lock_protection",
            "find_unprotected_calls", "get_lock_summary"}

\* The relation a trace operation follows.
IsCallerOp == op \in {"trace_callers", "get_unique_call_chains"} \/ IsContextOp

NextOf(f) == IF IsCallerOp THEN TraceCallersOf(f) ELSE get_functions_called_by(f)

\* The queries NextOf(f) stands for.
TraceQueries(f) ==
    IF ~IsCallerOp THEN {<<"called_by", f>>}
    ELSE IF enable_callback_search THEN CallbackQueries(f)
    ELSE {<<"calling", f>>}

\* Variant: only the timeout of a called-by query is an error.
TraceTimesOut_CalledByOnly(f) == QueryTimesOut("called_by", f) /\ ~IsCallerOp

\* One of the queries of _trace_recursive(f, ...) raises RuntimeError.
TraceTimesOut(f) == TraceQueries(f) \cap timed_out # {}

\* Mutations of the guard: depth test off by one, no cycle guard, no depth bound.
TraceReturnsAtOnce_OffByOne(current_func, depth) ==
    depth >= EffectiveDepth(max_depth) \/ current_func \in visited

TraceReturnsAtOnce_NoCycleGuard(current_func, depth) ==
    depth > EffectiveDepth(max_depth)

TraceReturnsAtOnce_NoDepthBound(current_func, depth) ==
    current_func \in visited

\* The guard at the top of _trace_recursive: TRUE when the call returns at once.
TraceReturnsAtOnce(current_func, depth) ==
    depth > EffectiveDepth(max_depth) \/ current_func \in visited

\* The path _trace_recursive emits: reversed for callers, as is for callees.
EmittedPath(current_path) ==
    IF IsCallerOp THEN Reverse(current_path) ELSE current_path

\* Variant: the path of the traced function alone is not recorded.
PathsAfter_CallersOnly(current_path, depth) ==
    IF depth = 0
       \/ should_exclude_path(EmittedPath(current_path),
                              exclude_functions, exclude_directories)
    THEN paths
    ELSE Append(paths, CallPath(EmittedPath(current_path), depth))

\* paths after _trace_recursive looked at current_path.
PathsAfter(current_path, depth) ==
    IF should_exclude_path(EmittedPath(current_path),
                           exclude_functions, exclude_directories)
    THEN paths
    ELSE Append(paths, CallPath(EmittedPath(current_path), depth))

Frame(f, current_path, depth) ==
    [func |-> f, path |-> current_path, depth |-> depth, todo |-> NextOf(f)]

\* One call _trace_recursive(current_func, path, depth), made with the frames
\* in stk below it: up to the point where it iterates its callers/callees.
TraceRecursive(current_func, path, depth, stk) ==
    IF TraceReturnsAtOnce(current_func, depth)
    THEN /\ stack' = stk
         /\ UNCHANGED <<visited, paths>>
    ELSE /\ ~TraceTimesOut(current_func)
         /\ paths' = PathsAfter(Append(path, current_func), depth)
         /\ visited' = visited \cup {current_func}
         /\ stack' = Append(stk, Frame(current_func, Append(path, current_func), depth))

IsTraceOp ==
    \/ op \in {"trace_callers", "trace_callees",
                "get_unique_call_chains", "get_unique_callee_chains"}
    \/ IsContextOp

\* What no step of a traversal changes: the database, the arguments, and
\* the state of _analyze_path_locks.
Inputs == <<sites, assigns, enable_callback_search, defFile, op, target,
            to_function, roots, max_depth, exclude_functions, exclude_directories,
            call_path, target_locks, walk_i, held_locks, protected_by_locks,
            all_operations, unique_only, call_paths, contexts, timed_out,
            other, call_graph, returned_graphs, command, invoked>>

\* "await _trace_recursive(target_function, [], 0)"
TraceStart ==
    /\ pc = "start"
    /\ IsTraceOp
    /\ TraceRecursive(target, <<>>, 0, <<>>)
    /\ pc' = "tracing"
    /\ UNCHANGED <<Inputs, depth_map, queue, result>>

\* One iteration of "for caller in callers: await _trace_recursive(...)".
TraceDescend ==
    /\ pc = "tracing"
    /\ stack # <<>>
    /\ LET top == stack[Len(stack)] IN
       /\ top.todo # <<>>
       /\ TraceRecursive(Head(top.todo).function, top.path, top.depth + 1,
                         [stack EXCEPT ![Len(stack)].todo = Tail(top.todo)])
    /\ UNCHANGED <<Inputs, depth_map, queue, result, pc>>

\* The loop is over: "visited.remove(current_func)" and return.
TraceAscend ==
    /\ pc = "tracing"
    /\ stack # <<>>
    /\ LET top == stack[Len(stack)] IN
       /\ top.todo = <<>>
       /\ visited' = visited \ {top.func}
       /\ stack' = SubSeq(stack, 1, Len(stack) - 1)
    /\ UNCHANGED <<Inputs, paths, depth_map, queue, result, pc>>

\* trace_callers / trace_callees: "return paths".
TraceReturn ==
    /\ pc = "tracing"
    /\ stack = <<>>
    /\ op \in {"trace_callers", "trace_callees"}
    /\ result' = paths
    /\ pc' = "done"
    /\ UNCHANGED <<Inputs, stack, visited, paths, depth_map, queue>>

\* The RuntimeError of a query leaves _trace_recursive, every caller of it
\* on the stack and the operation: nothing catches it.
Raise ==
    /\ result' = RuntimeError
    /\ pc' = "raised"

\* The first call "_trace_recursive(target_function, [], 0)" raises.
TraceStartRaises ==
    /\ pc = "start"
    /\ IsTraceOp
    /\ ~TraceReturnsAtOnce(target, 0)
    /\ TraceTimesOut(target)
    /\ Raise
    /\ UNCHANGED <<Inputs, stack, visited, paths, depth_map, queue>>

\* A call "_trace_recursive(caller.function, ...)" made in the loop raises.
TraceDescendRaises ==
    /\ pc = "tracing"
    /\ stack # <<>>
    /\ LET top == stack[Len(stack)] IN
       /\ top.todo # <<>>
       /\ ~TraceReturnsAtOnce(Head(top.todo).function, top.depth + 1)
       /\ TraceTimesOut(Head(top.todo).function)
    /\ Raise
    /\ stack' = <<>>
    /\ UNCHANGED <<Inputs, visited, paths, depth_map, queue>>

\* " -> ".join(functions)
RECURSIVE Join(_)
Join(functions) ==
    IF functions = <<>> THEN ""
    ELSE IF Len(functions) = 1 THEN functions[1]
    ELSE functions[1] \o " -> " \o Join(Tail(functions))

\* Python's sorted(s, key=...): stable, ascending in the integer keys k[i].
StableSort(s, k) ==
    LET rank(i) == Cardinality({ j \in 1..Len(s) :
                                   k[j] < k[i] \/ (k[j] = k[i] /\ j < i) }) + 1
    IN  [p \in 1..Len(s) |-> s[CHOOSE i \in 1..Len(s) : rank(i) = p]]

\* path_groups: an insertion-ordered dict, as a sequence of (key, path) entries.
GroupInsert(groups, path) ==
    LET path_str == Join(path.functions)
        at == { i \in 1..Len(groups) : groups[i].key = path_str }
    IN  IF at = {}
        THEN Append(groups, [key |-> path_str, path |-> path])
        ELSE LET i == CHOOSE i \in at : TRUE IN
             IF Len(path.functions) > Len(groups[i].path.functions)
             THEN [groups EXCEPT ![i].path = path]
             ELSE groups

RECURSIVE PathGroups(_)
PathGroups(all_paths) ==
    IF all_paths = <<>> THEN <<>>
    ELSE GroupInsert(PathGroups(SubSeq(all_paths, 1, Len(all_paths) - 1)),
                     all_paths[Len(all_paths)])

GroupValues(groups) == [i \in 1..Len(groups) |-> groups[i].path]

\* Mutation: reverse=True forgotten.
SortedPaths_Ascending(all_paths) ==
    LET values == GroupValues(PathGroups(all_paths))
    IN  StableSort(values, [i \in 1..Len(values) |-> Len(values[i].functions)])

\* sorted(path_groups.values(), key=lambda p: len(p.functions), reverse=True)
SortedPaths(all_paths) ==
    LET values == GroupValues(PathGroups(all_paths))
    IN  StableSort(values, [i \in 1..Len(values) |-> 0 - Len(values[i].functions)])

\* existing_functions[-len(path_functions):] == path_functions
SuffixMatch(path_functions, existing_functions) ==
    SubSeq(existing_functions,
           Len(existing_functions) - Len(path_functions) + 1,
           Len(existing_functions)) = path_functions

\* existing_functions[:len(path_functions)] == path_functions
PrefixMatch(path_functions, existing_functions) ==
    SubSeq(existing_functions, 1, Len(path_functions)) = path_functions

\* Variant: a path shorter than a kept path is dropped, suffix of it or not.
IsSubsetOfCallChain_AnyShorter(path, unique_paths) ==
    \E i \in 1..Len(unique_paths) :
        Len(path.functions) < Len(unique_paths[i].functions)

\* get_unique_call_chains: is_subset for path against the paths kept so far.
IsSubsetOfCallChain(path, unique_paths) ==
    \E i \in 1..Len(unique_paths) :
        /\ Len(path.functions) < Len(unique_paths[i].functions)
        /\ SuffixMatch(path.functions, unique_paths[i].functions)

\* get_unique_callee_chains: is_subset for path against the paths kept so far.
IsSubsetOfCalleeChain(path, unique_paths) ==
    \E i \in 1..Len(unique_paths) :
        /\ Len(path.functions) < Len(unique_paths[i].functions)
        /\ PrefixMatch(path.functions, unique_paths[i].functions)

RECURSIVE KeepCallChains(_)
KeepCallChains(sorted_paths) ==
    IF sorted_paths = <<>> THEN <<>>
    ELSE LET unique_paths == KeepCallChains(SubSeq(sorted_paths, 1, Len(sorted_paths) - 1))
             path == sorted_paths[Len(sorted_paths)]
         IN  IF IsSubsetOfCallChain(path, unique_paths) THEN unique_paths
             ELSE Append(unique_paths, path)

RECURSIVE KeepCalleeChains(_)
KeepCalleeChains(sorted_paths) ==
    IF sorted_paths = <<>> THEN <<>>
    ELSE LET unique_paths == KeepCalleeChains(SubSeq(sorted_paths, 1, Len(sorted_paths) - 1))
             path == sorted_paths[Len(sorted_paths)]
         IN  IF IsSubsetOfCalleeChain(path, unique_paths) THEN unique_paths
             ELSE Append(unique_paths, path)

\* unique_paths.sort(key=lambda p: (len(p.functions), p.functions[0] if ... else ""))
FinalSort(unique_paths) ==
    StableSort(unique_paths,
               [i \in 1..Len(unique_paths) |->
                   Len(unique_paths[i].functions) * (Len(NameOrder) + 1)
                   + (IF unique_paths[i].functions = <<>> THEN 0
                      ELSE NameIndex(unique_paths[i].functions[1]))])

UniqueCallChains(all_paths) == FinalSort(KeepCallChains(SortedPaths(all_paths)))

UniqueCalleeChains(all_paths) == FinalSort(KeepCalleeChains(SortedPaths(all_paths)))

\* get_unique_call_chains after "all_paths = await self.trace_callers(...)".
UniqueCallChainsReturn ==
    /\ pc = "tracing"
    /\ stack = <<>>
    /\ op = "get_unique_call_chains"
    /\ result' = UniqueCallChains(paths)
    /\ pc' = "done"
    /\ UNCHANGED <<Inputs, stack, visited, paths, depth_map, queue>>

\* get_unique_callee_chains after "all_paths = await self.trace_callees(...)".
UniqueCalleeChainsReturn ==
    /\ pc = "tracing"
    /\ stack = <<>>
    /\ op = "get_unique_callee_chains"
    /\ result' = UniqueCalleeChains(paths)
    /\ pc' = "done"
    /\ UNCHANGED <<Inputs, stack, visited, paths, depth_map, queue>>

(***************************************************************************)
(* find_call_paths                                                         *)
(***************************************************************************)
\* Mutation: the visited set is passed on without ".copy()", so that every
\* branch adds to the one set all frames share.
BranchVisited_Shared(frame_visited) == visited

\* The visited set a call of _find_paths_recursive tests and adds to: the
\* copy its caller made for it ("visited.copy()").
BranchVisited(frame_visited) == frame_visited

FindFrame(f, current_path, depth, vis) ==
    [func |-> f, path |-> current_path, depth |-> depth,
     todo |-> get_functions_called_by(f), visited |-> vis]

\* One call _find_paths_recursive(current_func, to_function, path, depth, vis),
\* made with the frames in stk below it.  The variable visited collects every
\* function that was added to a visited set.
FindPathsRecursive(current_func, path, depth, vis, stk) ==
    IF depth > EffectiveDepth(max_depth)
    THEN /\ stack' = stk
         /\ UNCHANGED <<visited, paths>>
    ELSE IF current_func = to_function
    THEN /\ paths' = Append(paths, CallPath(Append(path, current_func), depth))
         /\ stack' = stk
         /\ UNCHANGED visited
    ELSE IF current_func \in BranchVisited(vis)
    THEN /\ stack' = stk
         /\ UNCHANGED <<visited, paths>>
    ELSE /\ visited' = visited \cup {current_func}
         /\ stack' = Append(stk, FindFrame(current_func, Append(path, current_func),
                                           depth, BranchVisited(vis) \cup {current_func}))
         /\ UNCHANGED paths

\* "await _find_paths_recursive(from_function, to_function, [], 0, set())"
FindStart ==
    /\ pc = "start"
    /\ op = "find_call_paths"
    /\ FindPathsRecursive(target, <<>>, 0, {}, <<>>)
    /\ pc' = "finding"
    /\ UNCHANGED <<Inputs, depth_map, queue, result>>

\* One iteration of "for callee in callees: await _find_paths_recursive(...)".
FindDescend ==
    /\ pc = "finding"
    /\ stack # <<>>
    /\ LET top == stack[Len(stack)] IN
       /\ top.todo # <<>>
       /\ FindPathsRecursive(Head(top.todo).function, top.path, top.depth + 1,
                             top.visited,
                             [stack EXCEPT ![Len(stack)].todo = Tail(top.todo)])
    /\ UNCHANGED <<Inputs, depth_map, queue, result, pc>>

\* The loop is over: _find_paths_recursive returns.
FindAscend ==
    /\ pc = "finding"
    /\ stack # <<>>
    /\ stack[Len(stack)].todo = <<>>
    /\ stack' = SubSeq(stack, 1, Len(stack) - 1)
    /\ UNCHANGED <<Inputs, visited, paths, depth_map, queue, result, pc>>

\* find_call_paths: "return paths".
FindReturn ==
    /\ pc = "finding"
    /\ stack = <<>>
    /\ result' = paths
    /\ pc' = "done"
    /\ UNCHANGED <<Inputs, stack, visited, paths, depth_map, queue>>

(***************************************************************************)
(* Two top-level invocations on one tracer                                 *)
(***************************************************************************)
\* What a top-level trace_callers, trace_callees or find_call_paths call
\* owns: its arguments, the locals "paths" and "visited" of the call, the
\* frames of its nested function, and where it stands.
Invocation(operation, function, to, depth_arg, frames, visited_set, path_list, returned, position) ==
    [op |-> operation, target |-> function, to_function |-> to,
     max_depth |-> depth_arg, stack |-> frames, visited |-> visited_set,
     paths |-> path_list, result |-> returned, pc |-> position]

Running ==
    Invocation(op, target, to_function, max_depth, stack, visited, paths,
               result, pc)

\* Variant: there is one visited set on the tracer, which every invocation
\* tests and adds to.
OwnVisited_OnTracer(suspended_visited) == visited

\* "visited = set()" is a local of the call: the invocation that resumes
\* finds the set it left.
OwnVisited(suspended_visited) == suspended_visited

\* The running invocation is suspended at an await of a collaborator query
\* and the event loop resumes the other one.
Resume ==
    /\ other # None
    /\ other' = Running
    /\ op' = other.op
    /\ target' = other.target
    /\ to_function' = other.to_function
    /\ max_depth' = other.max_depth
    /\ stack' = other.stack
    /\ visited' = OwnVisited(other.visited)
    /\ paths' = other.paths
    /\ result' = other.result
    /\ pc' = other.pc
    /\ UNCHANGED <<sites, assigns, enable_callback_search, defFile, roots,
                   exclude_functions, exclude_directories, depth_map, queue,
                   call_path, target_locks, walk_i, held_locks,
                   protected_by_locks, all_operations, unique_only, call_paths,
                   contexts, timed_out, call_graph, returned_graphs, command,
                   invoked>>

(***************************************************************************)
(* get_function_depth_map                                                  *)
(***************************************************************************)
\* depth_map: function -> Some(depth), or None when the function is no key.
EmptyDepthMap == [f \in Range(NameOrder) |-> None]

\* Mutation: the callees are queued at the depth of their caller.
ProposedDepth_Same(depth) == depth

\* "queue.append((callee.function, depth + 1))"
ProposedDepth(depth) == depth + 1

\* Mutation: a recorded depth is never kept.
DepthIsSettled_Never(function, depth) == FALSE

\* "if function in depth_map and depth_map[function] <= depth: continue"
DepthIsSettled(function, depth) ==
    depth_map[function] # None /\ depth_map[function][1] <= depth

QueueEntries(fs, depth) == [i \in 1..Len(fs) |-> [function |-> fs[i], depth |-> depth]]

FunctionsOf(calls) == [i \in 1..Len(calls) |-> calls[i].function]

\* "queue = deque([(func, 0) for func in root_functions])"
DepthStart ==
    /\ pc = "start"
    /\ op = "get_function_depth_map"
    /\ depth_map' = EmptyDepthMap
    /\ queue' = QueueEntries(roots, 0)
    /\ pc' = "mapping"
    /\ UNCHANGED <<Inputs, stack, visited, paths, result>>

\* One iteration of "while queue:".
DepthStep ==
    /\ pc = "mapping"
    /\ queue # <<>>
    /\ Head(queue).depth <= MaxQueueDepth
    /\ LET function == Head(queue).function
           depth == Head(queue).depth
       IN  IF DepthIsSettled(function, depth)
           THEN /\ queue' = Tail(queue)
                /\ UNCHANGED depth_map
           ELSE /\ depth_map' = [depth_map EXCEPT ![function] = Some(depth)]
                /\ queue' = Tail(queue)
                       \o QueueEntries(FunctionsOf(get_functions_called_by(function)),
                                       ProposedDepth(depth))
    /\ UNCHANGED <<Inputs, stack, visited, paths, result, pc>>

\* "return depth_map"
DepthReturn ==
    /\ pc = "mapping"
    /\ queue = <<>>
    /\ result' = depth_map
    /\ pc' = "done"
    /\ UNCHANGED <<Inputs, stack, visited, paths, depth_map, queue>>

(***************************************************************************)
(* build_call_graph                                                        *)
(***************************************************************************)
\* The names of calls that are not in seen, in the order of calls:
\* "if call.function not in visited: queue.append(call.function)".
RECURSIVE NotVisited(_, _)
NotVisited(calls, seen) ==
    IF calls = <<>> THEN <<>>
    ELSE IF Head(calls).function \in seen
         THEN NotVisited(Tail(calls), seen)
         ELSE <<Head(calls).function>> \o NotVisited(Tail(calls), seen)

\* "visited = set(); queue = deque(root_functions)".  The tracer's graph is
\* the one made by __init__: the call does not make a new one.
BuildCallGraphStart ==
    /\ pc \in {"start", "done"}
    /\ op = "build_call_graph"
    /\ Len(returned_graphs) < MaxGraphCalls
    /\ \E root_functions \in RootLists :
          /\ roots' = root_functions
          /\ queue' = root_functions
    /\ visited' = {}
    /\ pc' = "building"
    /\ UNCHANGED <<sites, assigns, enable_callback_search, defFile, op, target,
                   to_function, max_depth, exclude_functions, exclude_directories,
                   stack, paths, depth_map, result, call_path, target_locks,
                   walk_i, held_locks, protected_by_locks, all_operations,
                   unique_only, call_paths, contexts, timed_out, other,
                   call_graph, returned_graphs, command, invoked>>

\* One iteration of "while queue:".
BuildCallGraphStep ==
    /\ pc = "building"
    /\ queue # <<>>
    /\ LET function == Head(queue)
           callees == get_functions_called_by(function)
           callers == get_functions_calling(function)
       IN  IF function \in visited
           THEN /\ queue' = Tail(queue)
                /\ UNCHANGED <<visited, call_graph>>
           ELSE /\ visited' = visited \cup {function}
                /\ call_graph' =
                      [callers |-> [call_graph.callers EXCEPT ![function] = Some(callers)],
                       callees |-> [call_graph.callees EXCEPT ![function] = Some(callees)]]
                /\ queue' = Tail(queue)
                       \o NotVisited(callees, visited \cup {function})
                       \o NotVisited(callers, visited \cup {function})
    /\ UNCHANGED <<sites, assigns, enable_callback_search, defFile, op, target,
                   to_function, roots, max_depth, exclude_functions,
                   exclude_directories, stack, paths, depth_map, result, pc,
                   call_path, target_locks, walk_i, held_locks,
                   protected_by_locks, all_operations, unique_only, call_paths,
                   contexts, timed_out, other, returned_graphs, command, invoked>>

\* "return self._call_graph": the caller gets the tracer's own graph object.
\* returned_graphs keeps the roots of the call and the entries the graph had
\* when it was returned.
BuildCallGraphReturn ==
    /\ pc = "building"
    /\ queue = <<>>
    /\ result' = call_graph
    /\ returned_graphs' = Append(returned_graphs, [roots |-> roots, graph |-> call_graph])
    /\ pc' = "done"
    /\ UNCHANGED <<sites, assigns, enable_callback_search, defFile, op, target,
                   to_function, roots, max_depth, exclude_functions,
                   exclude_directories, stack, visited, paths, depth_map, queue,
                   call_path, target_locks, walk_i, held_locks,
                   protected_by_locks, all_operations, unique_only, call_paths,
                   contexts, timed_out, other, call_graph, command, invoked>>

(***************************************************************************)
(* get_call_statistics                                                     *)
(***************************************************************************)
\* Variant: counts the calls, not the distinct names.
UniqueCount_OfCalls(calls) == Len(calls)

\* len({call.function for call in calls})
UniqueCount(calls) == Cardinality({ calls[i].function : i \in 1..Len(calls) })

\* get_call_statistics(function): both raw queries, then the four counts.
GetCallStatistics ==
    /\ pc = "start"
    /\ op = "get_call_statistics"
    /\ ~QueryTimesOut("calling", target)
    /\ ~QueryTimesOut("called_by", target)
    /\ LET callers == get_functions_calling(target)
           callees == get_functions_called_by(target)
       IN  result' = [caller_count |-> Len(callers),
                      callee_count |-> Len(callees),
                      unique_callers |-> UniqueCount(callers),
                      unique_callees |-> UniqueCount(callees)]
    /\ pc' = "done"
    /\ UNCHANGED <<Inputs, stack, visited, paths, depth_map, queue>>

\* get_call_statistics raises in one of its two queries.
GetCallStatisticsRaises ==
    /\ pc = "start"
    /\ op = "get_call_statistics"
    /\ QueryTimesOut("calling", target) \/ QueryTimesOut("called_by", target)
    /\ Raise
    /\ UNCHANGED <<Inputs, stack, visited, paths, depth_map, queue>>

\* CscopeInterface.get_callback_callers(function), with the queries it issued.
GetCallbackCallers ==
    /\ pc = "start"
    /\ op = "get_callback_callers"
    /\ CallbackQueries(target) \cap timed_out = {}
    /\ result' = get_callback_callers(target)
    /\ invoked' = CallbackQueryLog(target)
    /\ pc' = "done"
    /\ UNCHANGED <<sites, assigns, enable_callback_search, defFile, op, target,
                   to_function, roots, max_depth, exclude_functions,
                   exclude_directories, stack, visited, paths, depth_map, queue,
                   call_path, target_locks, walk_i, held_locks,
                   protected_by_locks, all_operations, unique_only, call_paths,
                   contexts, timed_out, other, call_graph, returned_graphs,
                   command>>

\* CscopeInterface.function_exists(function)
FunctionExists ==
    /\ pc = "start"
    /\ op = "function_exists"
    /\ result' = function_exists(target)
    /\ pc' = "done"
    /\ UNCHANGED <<Inputs, stack, visited, paths, depth_map, queue>>

\* CscopeInterface.find_function_definition(function)
FindFunctionDefinition ==
    /\ pc = "start"
    /\ op = "find_function_definition"
    /\ result' = find_function_definition(target)
    /\ pc' = "done"
    /\ UNCHANGED <<Inputs, stack, visited, paths, depth_map, queue>>

(***************************************************************************)
(* LockAnalyzer (lock_analyzer.py)                                         *)
(***************************************************************************)
At(s, i) == SubSeq(s, i, i)

CharsOf(s) == { At(s, i) : i \in 1..Len(s) }

LowerCase == "abcdefghijklmnopqrstuvwxyz"
UpperCase == "ABCDEFGHIJKLMNOPQRSTUVWXYZ"

\* [a-zA-Z_] and [a-zA-Z0-9_]
IdentStart == CharsOf(LowerCase) \cup CharsOf(UpperCase) \cup {"_"}
IdentChar == IdentStart \cup CharsOf("0123456789")

\* \s
Whitespace == {" ", "\t"}

\* str.lower()
RECURSIVE lower(_)
lower(s) ==
    IF s = "" THEN ""
    ELSE LET c == At(s, 1)
             l == IF \E i \in 1..Len(UpperCase) : At(UpperCase, i) = c
                  THEN At(LowerCase, CHOOSE i \in 1..Len(UpperCase) : At(UpperCase, i) = c)
                  ELSE c
         IN  l \o lower(SubSeq(s, 2, Len(s)))

\* r"literal\s*\(" and r"(?<!rcu_)literal\s*\("
Pat(literal) == [lookbehind |-> "", literal |-> literal]
NotAfterRcu(literal) == [lookbehind |-> "rcu_", literal |-> literal]

LOCK_PATTERNS ==
    << [lock_type |-> "spinlock", op_type |-> "acquire",
        patterns |-> << Pat("spin_lock"), Pat("spin_lock_irq"),
                        Pat("spin_lock_irqsave"), Pat("spin_lock_bh") >>],
       [lock_type |-> "spinlock", op_type |-> "release",
        patterns |-> << Pat("spin_unlock"), Pat("spin_unlock_irq"),
                        Pat("spin_unlock_irqrestore"), Pat("spin_unlock_bh") >>],
       [lock_type |-> "mutex", op_type |-> "acquire",
        patterns |-> << Pat("mutex_lock"), Pat("mutex_lock_interruptible"),
                        Pat("mutex_trylock") >>],
       [lock_type |-> "mutex", op_type |-> "release",
        patterns |-> << Pat("mutex_unlock") >>],
       [lock_type |-> "rwlock", op_type |-> "acquire",
        patterns |-> << NotAfterRcu("read_lock"), NotAfterRcu("write_lock"),
                        NotAfterRcu("read_lock_irq"), NotAfterRcu("write_lock_irq"),
                        NotAfterRcu("read_lock_bh"), NotAfterRcu("write_lock_bh") >>],
       [lock_type |-> "rwlock", op_type |-> "release",
        patterns |-> << NotAfterRcu("read_unlock"), NotAfterRcu("write_unlock"),
                        NotAfterRcu("read_unlock_irq"), NotAfterRcu("write_unlock_irq"),
                        NotAfterRcu("read_unlock_bh"), NotAfterRcu("write_unlock_bh") >>],
       [lock_type |-> "rcu", op_type |-> "acquire",
        patterns |-> << Pat("rcu_read_lock"), Pat("rcu_read_lock_bh") >>],
       [lock_type |-> "rcu", op_type |-> "release",
        patterns |-> << Pat("rcu_read_unlock"), Pat("rcu_read_unlock_bh") >>],
       [lock_type |-> "custom", op_type |-> "acquire",
        patterns |-> << Pat("rtnl_lock"), Pat("rtnl_trylock"), Pat("rtnl_net_lock"),
                        Pat("rtnl_nets_lock"), Pat("netdev_lock_ops"),
                        Pat("netlink_table_grab"), Pat("genl_lock") >>],
       [lock_type |-> "custom", op_type |-> "release",
        patterns |-> << Pat("rtnl_unlock"), Pat("rtnl_net_unlock"),
                        Pat("rtnl_nets_unlock"), Pat("netdev_unlock_ops"),
                        Pat("netlink_table_ungrab"), Pat("genl_unlock") >>] >>

LOCK_MATCHING_CONFIG ==
    << [lock_name_patterns |-> <<"rcu_read_lock", "rcu_read_unlock">>,
        generic_targets |-> <<"rcu", "rcu_lock">>],
       [lock_name_patterns |-> <<"rtnl">>,
        generic_targets |-> <<"rtnl", "rtnl_lock">>],
       [lock_name_patterns |-> <<"netdev_">>,
        generic_targets |-> <<"netdev", "netdev_lock">>],
       [lock_name_patterns |-> <<"spin_lock", "spin_unlock">>,
        generic_targets |-> <<"spin", "spin_lock", "spinlock">>],
       [lock_name_patterns |-> <<"mutex_lock", "mutex_unlock">>,
        generic_targets |-> <<"mutex", "mutex_lock">>] >>

\* The pattern matches s at position i: the literal, not preceded by the
\* lookbehind, then whitespace, then "(".
MatchesAt(pattern, s, i) ==
    LET e  == i + Len(pattern.literal)
        lb == pattern.lookbehind
    IN  /\ e - 1 <= Len(s)
        /\ SubSeq(s, i, e - 1) = pattern.literal
        /\ ~ (lb # "" /\ i > Len(lb) /\ SubSeq(s, i - Len(lb), i - 1) = lb)
        /\ \E j \in e..Len(s) :
               /\ At(s, j) = "("
               /\ \A k \in e..(j - 1) : At(s, k) \in Whitespace

\* pattern.search(s)
search(pattern, s) == \E i \in 1..Len(s) : MatchesAt(pattern, s, i)

LockOperation(lock_name, lock_type, operation, function, line, context) ==
    [lock_name |-> lock_name, lock_type |-> lock_type, operation |-> operation,
     function |-> function, line |-> line, context |-> context]

\* The last position of the longest identifier of s that starts at j, and
\* j - 1 when none starts there.
IdentEnd(s, j) ==
    IF j > Len(s) \/ At(s, j) \notin IdentStart THEN j - 1
    ELSE CHOOSE k \in j..Len(s) :
             /\ \A m \in j..k : At(s, m) \in IdentChar
             /\ k = Len(s) \/ At(s, k + 1) \notin IdentChar

\* r"\(&?([a-zA-Z_][a-zA-Z0-9_]*)\)" matched at position i: the group.
AddressArgumentAt(s, i) ==
    LET j == IF i + 1 <= Len(s) /\ At(s, i + 1) = "&" THEN i + 2 ELSE i + 1
        k == IdentEnd(s, j)
    IN  IF At(s, i) = "(" /\ k >= j /\ k + 1 <= Len(s) /\ At(s, k + 1) = ")"
        THEN Some(SubSeq(s, j, k))
        ELSE None

\* r"([a-zA-Z_][a-zA-Z0-9_]*)\s*\(" matched at position i: the group.
CalledNameAt(s, i) ==
    LET k == IdentEnd(s, i)
    IN  IF /\ k >= i
           /\ \E j \in (k + 1)..Len(s) :
                  /\ At(s, j) = "("
                  /\ \A m \in (k + 1)..(j - 1) : At(s, m) \in Whitespace
        THEN Some(SubSeq(s, i, k))
        ELSE None

\* re.search: the leftmost match, given the match at every position.
re_search(matches) ==
    LET hits == { i \in DOMAIN matches : matches[i] # None }
    IN  IF hits = {} THEN None
        ELSE matches[CHOOSE i \in hits : \A h \in hits : i <= h]

function_name_prefixes == <<"rcu_read_", "rtnl", "netdev_", "netlink_", "genl">>

extract_lock_name(context, function_name) ==
    LET by_function_name ==
            /\ \E p \in Range(function_name_prefixes) : StartsWith(function_name, p)
            /\ (StartsWith(function_name, "rtnl") \/ StartsWith(function_name, "netdev_"))
                   => (Contains("lock", function_name) \/ Contains("unlock", function_name))
        argument == re_search([i \in 1..Len(context) |-> AddressArgumentAt(context, i)])
        called   == re_search([i \in 1..Len(context) |-> CalledNameAt(context, i)])
    IN  IF by_function_name THEN function_name
        ELSE IF argument # None THEN argument[1]
        ELSE IF called # None /\ called[1] # function_name THEN called[1]
        ELSE function_name

\* The (lock type, operation type) entries with a pattern that is found in
\* the text of the call or in the name of the called function, and the
\* lock name of the call.
ClassifyCall(function, context) ==
    LET Found(e) == \E k \in 1..Len(e.patterns) :
                        \/ search(e.patterns[k], context)
                        \/ search(e.patterns[k], function)
    IN  [found |-> SelectSeq(LOCK_PATTERNS, Found),
         lock_name |-> extract_lock_name(context, function)]

\* The calls a path function makes: lock primitives, and the call of the
\* final function of the path, as <<called function, text of the line>>.
LockCalls == { <<"spin_lock", "spin_lock(&L)">>,
               <<"spin_unlock", "spin_unlock(&L)">>,
               <<"rtnl_lock", "rtnl_lock()">>,
               <<"rtnl_unlock", "rtnl_unlock()">>,
               <<"B", "B()">> }

\* ClassifyCall, computed once for each of these calls.
ClassifiedCalls == [c \in LockCalls |-> ClassifyCall(c[1], c[2])]

\* One operation for every (lock type, operation type) found.
identify_lock_operation(call, caller_function) ==
    LET c == IF <<call.function, call.context>> \in LockCalls
             THEN ClassifiedCalls[<<call.function, call.context>>]
             ELSE ClassifyCall(call.function, call.context)
    IN  [k \in 1..Len(c.found) |->
            LockOperation(c.lock_name, c.found[k].lock_type, c.found[k].op_type,
                          caller_function, call.line, call.context)]

RECURSIVE IdentifyAll(_, _)
IdentifyAll(calls, function) ==
    IF calls = <<>> THEN <<>>
    ELSE identify_lock_operation(Head(calls), function)
             \o IdentifyAll(Tail(calls), function)

find_lock_operations(function) ==
    IdentifyAll(get_functions_called_by(function), function)

\* Variant: keeps the operations on a line after the call.
filter_operations_before_call_AfterCall(caller_function, target_function, operations) ==
    LET calls == get_functions_called_by(caller_function)
        hits  == { k \in 1..Len(calls) : calls[k].function = target_function }
        target_call_line == calls[CHOOSE k \in hits : \A h \in hits : k <= h].line
        Before(o) == o.line > target_call_line
    IN  IF hits = {} THEN operations ELSE SelectSeq(operations, Before)

\* Variant: the reference line is that of the last listed call.
filter_operations_before_call_LastCall(caller_function, target_function, operations) ==
    LET calls == get_functions_called_by(caller_function)
        hits  == { k \in 1..Len(calls) : calls[k].function = target_function }
        target_call_line == calls[CHOOSE k \in hits : \A h \in hits : k >= h].line
        Before(o) == o.line < target_call_line
    IN  IF hits = {} THEN operations ELSE SelectSeq(operations, Before)

\* Variant: keeps the operations on the line of the call as well.
filter_operations_before_call_UpToCall(caller_function, target_function, operations) ==
    LET calls == get_functions_called_by(caller_function)
        hits  == { k \in 1..Len(calls) : calls[k].function = target_function }
        target_call_line == calls[CHOOSE k \in hits : \A h \in hits : k <= h].line
        Before(o) == o.line <= target_call_line
    IN  IF hits = {} THEN operations ELSE SelectSeq(operations, Before)

\* The operations on a line before the first listed call of target_function.
filter_operations_before_call(caller_function, target_function, operations) ==
    LET calls == get_functions_called_by(caller_function)
        hits  == { k \in 1..Len(calls) : calls[k].function = target_function }
        target_call_line == calls[CHOOSE k \in hits : \A h \in hits : k <= h].line
        Before(o) == o.line < target_call_line
    IN  IF hits = {} THEN operations ELSE SelectSeq(operations, Before)

\* The lock filters of the queries; None and the empty list are both <<>>.
LockFilters == { <<>>, <<"L">>, <<"rtnl">> }

\* lower(), computed once for each lock name and each filter name at hand.
LoweredNames ==
    [n \in { ClassifiedCalls[c].lock_name : c \in LockCalls }
              \cup UNION { Range(f) : f \in LockFilters } |-> lower(n)]

Lowered(n) == IF n \in DOMAIN LoweredNames THEN LoweredNames[n] ELSE lower(n)

lock_matches_target(lock_name, locks) ==
    \/ lock_name \in Range(locks)
    \/ \E c \in Range(LOCK_MATCHING_CONFIG) :
           /\ \E p \in Range(c.lock_name_patterns) : Contains(p, Lowered(lock_name))
           /\ \E t \in Range(locks) : Lowered(t) \in Range(c.generic_targets)

\* Variant: the final function is scanned as well.
path_functions_WholePath == call_path

\* call_path.functions[:-1] if len(call_path.functions) > 1 else []
path_functions ==
    IF Len(call_path) > 1 THEN SubSeq(call_path, 1, Len(call_path) - 1) ELSE <<>>

\* matches_target = not target_locks or self._lock_matches_target(...)
matches_target(o) ==
    target_locks = <<>> \/ lock_matches_target(o.lock_name, target_locks)

\* Variant: a release empties the held set.
TrackOperation_ReleaseClears(st, o) ==
    IF ~ matches_target(o) THEN st
    ELSE IF o.operation = "acquire"
    THEN [st EXCEPT !.held = @ \cup {o.lock_name},
                    !.function_acquires = @ \cup {o.lock_name},
                    !.protected = @ \cup {o.lock_name}]
    ELSE IF o.operation = "release"
    THEN [st EXCEPT !.held = {},
                    !.function_releases = @ \cup {o.lock_name}]
    ELSE st

\* Variant: an acquire is no protection evidence once it is released.
TrackOperation_NoEvidence(st, o) ==
    IF ~ matches_target(o) THEN st
    ELSE IF o.operation = "acquire"
    THEN [st EXCEPT !.held = @ \cup {o.lock_name},
                    !.function_acquires = @ \cup {o.lock_name},
                    !.protected = @ \cup {o.lock_name}]
    ELSE IF o.operation = "release"
    THEN [st EXCEPT !.held = @ \ {o.lock_name},
                    !.protected = @ \ {o.lock_name},
                    !.function_releases = @ \cup {o.lock_name}]
    ELSE st

\* The body of "for op in operations" on the tracking state st.
TrackOperation(st, o) ==
    IF ~ matches_target(o) THEN st
    ELSE IF o.operation = "acquire"
    THEN [st EXCEPT !.held = @ \cup {o.lock_name},
                    !.function_acquires = @ \cup {o.lock_name},
                    !.protected = @ \cup {o.lock_name}]
    ELSE IF o.operation = "release"
    THEN [st EXCEPT !.held = @ \ {o.lock_name},
                    !.function_releases = @ \cup {o.lock_name}]
    ELSE st

RECURSIVE TrackOperations(_, _)
TrackOperations(st, operations) ==
    IF operations = <<>> THEN st
    ELSE TrackOperations(TrackOperation(st, Head(operations)), Tail(operations))

\* The operations of path_functions[i] that take part in the state tracking.
TrackedOperations(i) ==
    IF i = Len(path_functions)
    THEN filter_operations_before_call(path_functions[i], call_path[Len(call_path)],
                                       find_lock_operations(path_functions[i]))
    ELSE find_lock_operations(path_functions[i])

\* Variant: only the operations that took part in the state tracking are
\* kept for display.
operations_for_display_Tracked(i) == SelectSeq(TrackedOperations(i), matches_target)

\* "original_operations = operations.copy()" before the call-order filter;
\* "operations_for_display = original_operations".
operations_for_display(i) == find_lock_operations(path_functions[i])

\* _analyze_path_locks is called.
AnalyzePathLocksStart ==
    /\ pc = "start"
    /\ op = "analyze_path_locks"
    /\ walk_i' = 1
    /\ held_locks' = {}
    /\ protected_by_locks' = {}
    /\ all_operations' = <<>>
    /\ pc' = "walking"
    /\ UNCHANGED <<unique_only, call_paths, contexts, timed_out,
                   other, call_graph, returned_graphs, command, invoked,
                   sites, assigns, enable_callback_search, defFile, op, target,
                   to_function, roots, max_depth, exclude_functions,
                   exclude_directories, stack, visited, paths, depth_map, queue,
                   result, call_path, target_locks>>

\* One iteration of "for i, function in enumerate(path_functions)".
AnalyzePathLocksStep ==
    /\ pc = "walking"
    /\ walk_i <= Len(path_functions)
    /\ ~QueryTimesOut("called_by", path_functions[walk_i])
    /\ LET st == TrackOperations([held |-> held_locks,
                                  protected |-> protected_by_locks,
                                  function_acquires |-> {},
                                  function_releases |-> {}],
                                 TrackedOperations(walk_i))
       IN  /\ held_locks' = st.held
           /\ protected_by_locks' =
                  st.protected \cup (st.function_acquires \cap st.function_releases)
    /\ all_operations' = all_operations \o operations_for_display(walk_i)
    /\ walk_i' = walk_i + 1
    /\ UNCHANGED <<unique_only, call_paths, contexts, timed_out,
                   other, call_graph, returned_graphs, command, invoked,
                   sites, assigns, enable_callback_search, defFile, op, target,
                   to_function, roots, max_depth, exclude_functions,
                   exclude_directories, stack, visited, paths, depth_map, queue,
                   result, pc, call_path, target_locks>>

\* find_lock_operations(function) raises in get_functions_called_by: the
\* RuntimeError leaves _analyze_path_locks and the operation that called it.
AnalyzePathLocksRaises ==
    /\ pc = "walking"
    /\ walk_i <= Len(path_functions)
    /\ QueryTimesOut("called_by", path_functions[walk_i])
    /\ Raise
    /\ UNCHANGED <<unique_only, call_paths, contexts, timed_out,
                   other, call_graph, returned_graphs, command, invoked,
                   sites, assigns, enable_callback_search, defFile, op, target,
                   to_function, roots, max_depth, exclude_functions,
                   exclude_directories, stack, visited, paths, depth_map, queue,
                   call_path, target_locks, walk_i, held_locks,
                   protected_by_locks, all_operations>>

\* Variant: the held set is returned as the walk left it.
ReturnedHeldLocks_NoFallback == held_locks

\* if not held_locks and protected_by_locks and not target_locks:
\*     held_locks = protected_by_locks
ReturnedHeldLocks ==
    IF held_locks = {} /\ protected_by_locks # {} /\ target_locks = <<>>
    THEN protected_by_locks
    ELSE held_locks

\* LockContext(function, held_locks, call_path, lock_operations)
ReturnedLockContext ==
    [function |-> IF call_path # <<>> THEN call_path[Len(call_path)] ELSE "",
     held_locks |-> ReturnedHeldLocks,
     call_path |-> call_path,
     lock_operations |-> all_operations]

\* The loop is over: the protection evidence stands in for an empty held
\* set of an unfiltered query, and the LockContext is returned.
AnalyzePathLocksReturn ==
    /\ pc = "walking"
    /\ op = "analyze_path_locks"
    /\ walk_i > Len(path_functions)
    /\ held_locks' = ReturnedHeldLocks
    /\ result' = ReturnedLockContext
    /\ pc' = "done"
    /\ UNCHANGED <<unique_only, call_paths, contexts, timed_out,
                   other, call_graph, returned_graphs, command, invoked,
                   sites, assigns, enable_callback_search, defFile, op, target,
                   to_function, roots, max_depth, exclude_functions,
                   exclude_directories, stack, visited, paths, depth_map, queue,
                   call_path, target_locks, walk_i, protected_by_locks,
                   all_operations>>

\* No _analyze_path_locks call is under way.
NoPathAnalysis ==
    /\ call_path = <<>>
    /\ target_locks = <<>>
    /\ walk_i = 0
    /\ held_locks = {}
    /\ protected_by_locks = {}
    /\ all_operations = <<>>
    /\ unique_only = TRUE
    /\ call_paths = <<>>
    /\ contexts = <<>>

(***************************************************************************)
(* analyze_lock_context and the operations built on it                     *)
(***************************************************************************)
\* What no step of a lock-context operation changes: the database, the
\* arguments and the state of the traversal that came before.
ContextInputs == <<sites, assigns, enable_callback_search, defFile, op, target,
                   to_function, roots, max_depth, exclude_functions,
                   exclude_directories, target_locks, unique_only, stack,
                   visited, paths, depth_map, queue, timed_out,
                   other, call_graph, returned_graphs, command, invoked>>

\* "call_paths = await self.call_tracer.get_unique_call_chains(...)" or
\* "... trace_callers(...)": the traversal has returned.
AnalyzeLockContextTraced ==
    /\ pc = "tracing"
    /\ stack = <<>>
    /\ IsContextOp
    /\ call_paths' = IF unique_only THEN UniqueCallChains(paths) ELSE paths
    /\ contexts' = <<>>
    /\ pc' = "contexts"
    /\ UNCHANGED <<ContextInputs, result, call_path, walk_i, held_locks,
                   protected_by_locks, all_operations>>

\* "for path in call_paths: ... self._analyze_path_locks(path, target_locks)"
AnalyzeLockContextNextPath ==
    /\ pc = "contexts"
    /\ Len(contexts) < Len(call_paths)
    /\ call_path' = call_paths[Len(contexts) + 1].functions
    /\ walk_i' = 1
    /\ held_locks' = {}
    /\ protected_by_locks' = {}
    /\ all_operations' = <<>>
    /\ pc' = "walking"
    /\ UNCHANGED <<ContextInputs, result, call_paths, contexts>>

\* "contexts.append(lock_context)"
AnalyzeLockContextAppend ==
    /\ pc = "walking"
    /\ IsContextOp
    /\ walk_i > Len(path_functions)
    /\ held_locks' = ReturnedHeldLocks
    /\ contexts' = Append(contexts, ReturnedLockContext)
    /\ pc' = "contexts"
    /\ UNCHANGED <<ContextInputs, result, call_paths, call_path, walk_i,
                   protected_by_locks, all_operations>>

\* analyze_lock_context has returned its contexts.
ContextsReturned == pc = "contexts" /\ Len(contexts) = Len(call_paths)

\* analyze_lock_context called as an operation of its own: "return contexts"
AnalyzeLockContextReturn ==
    /\ ContextsReturned
    /\ op = "analyze_lock_context"
    /\ result' = contexts
    /\ pc' = "done"
    /\ UNCHANGED <<ContextInputs, call_paths, contexts, call_path, walk_i,
                   held_locks, protected_by_locks, all_operations>>

\* Variant: a path counts as protected by a lock when it holds any lock.
HasLockProtection_AnyLock(context, lock_name) == context.held_locks # {}

\* "lock_name in context.held_locks"
HasLockProtection(context, lock_name) == lock_name \in context.held_locks

\* The dict built by "results[path_str] = ...": a later context replaces the
\* entry of an earlier one with the same path string.
ProtectionResults(cs, lock_name) ==
    [path_str \in { Join(cs[i].call_path) : i \in 1..Len(cs) } |->
        LET last == CHOOSE i \in 1..Len(cs) :
                        /\ Join(cs[i].call_path) = path_str
                        /\ \A j \in (i + 1)..Len(cs) :
                               Join(cs[j].call_path) # path_str
        IN  HasLockProtection(cs[last], lock_name)]

\* check_lock_protection(function, lock_name, unique_only): the filter is
\* [lock_name].
CheckLockProtectionReturn ==
    /\ ContextsReturned
    /\ op = "check_lock_protection"
    /\ result' = ProtectionResults(contexts, target_locks[1])
    /\ pc' = "done"
    /\ UNCHANGED <<ContextInputs, call_paths, contexts, call_path, walk_i,
                   held_locks, protected_by_locks, all_operations>>

\* Variant: a context is unprotected only when it holds none of the
\* required locks.
missing_locks_NoneHeld(context, required_locks) ==
    IF Range(required_locks) \cap context.held_locks = {}
    THEN Range(required_locks)
    ELSE {}

\* "missing_locks = set(required_locks) - context.held_locks"
missing_locks(context, required_locks) ==
    Range(required_locks) \ context.held_locks

IsUnprotected(context) == missing_locks(context, target_locks) # {}

\* find_unprotected_calls(function, required_locks, unique_only)
FindUnprotectedCallsReturn ==
    /\ ContextsReturned
    /\ op = "find_unprotected_calls"
    /\ result' = SelectSeq(contexts, IsUnprotected)
    /\ pc' = "done"
    /\ UNCHANGED <<ContextInputs, call_paths, contexts, call_path, walk_i,
                   held_locks, protected_by_locks, all_operations>>

\* Variant: a path counts as protected when lock operations were found on it.
IsProtectedPath_AnyOperation(context) == context.lock_operations # <<>>

\* "if context.held_locks: protected_paths += 1 else: unprotected_paths += 1"
IsProtectedPath(context) == context.held_locks # {}

\* "all_locks.update(context.held_locks)" over the contexts
AllLocks(cs) == UNION { cs[i].held_locks : i \in 1..Len(cs) }

\* list(all_locks): the elements of the set, each once, in some order.
ListsOf(S) ==
    { l \in [1..Cardinality(S) -> S] : \A i, j \in DOMAIN l : l[i] = l[j] => i = j }

\* get_lock_summary(function): the contexts are those of the unfiltered
\* query over the unique call chains.
GetLockSummaryReturn ==
    /\ ContextsReturned
    /\ op = "get_lock_summary"
    /\ \E locks_encountered \in ListsOf(AllLocks(contexts)) :
           result' =
               [function |-> target,
                total_call_paths |-> Len(contexts),
                protected_paths |->
                    Cardinality({ i \in 1..Len(contexts) : IsProtectedPath(contexts[i]) }),
                unprotected_paths |->
                    Cardinality({ i \in 1..Len(contexts) : ~IsProtectedPath(contexts[i]) }),
                locks_encountered |-> locks_encountered,
                lock_count |-> Cardinality(AllLocks(contexts))]
    /\ pc' = "done"
    /\ UNCHANGED <<ContextInputs, call_paths, contexts, call_path, walk_i,
                   held_locks, protected_by_locks, all_operations>>

(***************************************************************************)
(* LockTraceCLI (cli.py)                                                   *)
(***************************************************************************)
Commands ==
    {"callers", "callees", "lock-check", "lock-context", "unprotected", "stats"}

\* print("Error: Function '...' not found in cscope database")
NotFound == "Error: Function not found in cscope database"

\* Variant: the command goes on without looking at the answer.
TargetFound_Unchecked(function) == TRUE

\* "if not await self.cscope.function_exists(function): ... return"
TargetFound(function) == function_exists(function)

\* The operation a command calls first, given its --tree and --verbose flags.
CommandOperation(cmd, tree, verbose) ==
    CASE cmd = "callers" ->
             IF ~tree /\ verbose THEN "trace_callers" ELSE "get_unique_call_chains"
      [] cmd = "callees" ->
             IF ~tree /\ verbose THEN "trace_callees" ELSE "get_unique_callee_chains"
      [] cmd = "lock-check" -> "check_lock_protection"
      [] cmd = "lock-context" -> "analyze_lock_context"
      [] cmd = "unprotected" -> "find_unprotected_calls"
      [] cmd = "stats" -> "get_call_statistics"

\* The existence check failed: the error is printed and the command returns.
CliReportNotFound ==
    /\ pc = "command"
    /\ ~TargetFound(target)
    /\ result' = NotFound
    /\ pc' = "done"
    /\ UNCHANGED <<sites, assigns, enable_callback_search, defFile, op, target,
                   to_function, roots, max_depth, exclude_functions,
                   exclude_directories, stack, visited, paths, depth_map, queue,
                   call_path, target_locks, walk_i, held_locks,
                   protected_by_locks, all_operations, unique_only, call_paths,
                   contexts, timed_out, other, call_graph, returned_graphs,
                   command, invoked>>

\* The existence check passed: the command calls its operation, with
\* "unique_only = not verbose".
CliInvoke ==
    /\ pc = "command"
    /\ TargetFound(target)
    /\ \E tree, verbose \in BOOLEAN :
           /\ op' = CommandOperation(command, tree, verbose)
           /\ unique_only' = ~verbose
    /\ invoked' = Append(invoked, op')
    /\ pc' = "start"
    /\ UNCHANGED <<sites, assigns, enable_callback_search, defFile, target,
                   to_function, roots, max_depth, exclude_functions,
                   exclude_directories, stack, visited, paths, depth_map, queue,
                   result, call_path, target_locks, walk_i, held_locks,
                   protected_by_locks, all_operations, call_paths,
                   contexts, timed_out, other, call_graph, returned_graphs,
                   command>>

\* get_function_stats: "lock_summary = await self.analyzer.get_lock_summary(function)"
\* after get_call_statistics has returned.
CliStatsLockSummary ==
    /\ pc = "done"
    /\ command = "stats"
    /\ op = "get_call_statistics"
    /\ op' = "get_lock_summary"
    /\ unique_only' = TRUE
    /\ invoked' = Append(invoked, op')
    /\ pc' = "start"
    /\ UNCHANGED <<sites, assigns, enable_callback_search, defFile, target,
                   to_function, roots, max_depth, exclude_functions,
                   exclude_directories, stack, visited, paths, depth_map, queue,
                   result, call_path, target_locks, walk_i, held_locks,
                   protected_by_locks, all_operations, call_paths,
                   contexts, timed_out, other, call_graph, returned_graphs,
                   command>>

(***************************************************************************)
(* Specification of the four trace operations                              *)
(***************************************************************************)
DepthArgs == {None} \cup { Some(d) : d \in 0..MaxDepth }

Init ==
    /\ sites \in SeqsUpTo(CallSites(Funcs), MaxSites)
    /\ assigns = <<>>
    /\ timed_out = {}
    /\ OneDirectCall
    /\ enable_callback_search = TRUE
    /\ op \in {"trace_callers", "trace_callees",
                "get_unique_call_chains", "get_unique_callee_chains"}
    /\ target \in TraceTargets
    /\ to_function = "T"
    /\ roots = <<>>
    /\ max_depth \in DepthArgs
    /\ \E e \in Exclusions :
           defFile = e[1] /\ exclude_functions = e[2] /\ exclude_directories = e[3]
    /\ stack = <<>>
    /\ visited = {}
    /\ paths = <<>>
    /\ depth_map = EmptyDepthMap
    /\ queue = <<>>
    /\ result = <<>>
    /\ pc = "start"
    /\ NoPathAnalysis

Next ==
    \/ TraceStart
    \/ TraceDescend
    \/ TraceAscend
    \/ TraceReturn
    \/ UniqueCallChainsReturn
    \/ UniqueCalleeChainsReturn

Spec == Init /\ [][Next]_vars

(***************************************************************************)
(* Specification of find_call_paths                                        *)
(***************************************************************************)
FindFuncs == {"A", "B", "C", "T"}

\* Call sites of the functions the search can expand on its way to "T":
\* calls between distinct functions, cycles through from_function included.
FindSites ==
    { c \in [caller : {"A", "B", "C"}, callee : FindFuncs, line : {0}, context : {""}] :
          c.caller # c.callee }

InitFind ==
    /\ sites \in SeqsUpTo(FindSites, MaxFindSites)
    /\ assigns = <<>>
    /\ timed_out = {}
    /\ OneDirectCall
    /\ enable_callback_search = TRUE
    /\ defFile = DefMapA
    /\ op = "find_call_paths"
    /\ target = "A"
    /\ to_function \in {"A", "T"}
    /\ roots = <<>>
    /\ max_depth \in {None, Some(0), Some(MaxDepth + 1)}
    /\ exclude_functions = {}
    /\ exclude_directories = {}
    /\ stack = <<>>
    /\ visited = {}
    /\ paths = <<>>
    /\ depth_map = EmptyDepthMap
    /\ queue = <<>>
    /\ result = <<>>
    /\ pc = "start"
    /\ NoPathAnalysis

NextFind ==
    \/ FindStart
    \/ FindDescend
    \/ FindAscend
    \/ FindReturn

SpecFind == InitFind /\ [][NextFind]_vars

(***************************************************************************)
(* Specification of get_function_depth_map                                 *)
(***************************************************************************)
InitDepth ==
    /\ sites \in SeqsUpTo(CallSites(Funcs), MaxSites)
    /\ assigns = <<>>
    /\ timed_out = {}
    /\ OneDirectCall
    /\ enable_callback_search = TRUE
    /\ defFile = DefMapA
    /\ op = "get_function_depth_map"
    /\ target = "T"
    /\ to_function = "T"
    /\ roots \in SeqsUpTo(Funcs, MaxRoots)
    /\ max_depth = None
    /\ exclude_functions = {}
    /\ exclude_directories = {}
    /\ stack = <<>>
    /\ visited = {}
    /\ paths = <<>>
    /\ depth_map = EmptyDepthMap
    /\ queue = <<>>
    /\ result = <<>>
    /\ pc = "start"
    /\ NoPathAnalysis

NextDepth ==
    \/ DepthStart
    \/ DepthStep
    \/ DepthReturn

SpecDepth == InitDepth /\ [][NextDepth]_vars

(***************************************************************************)
(* Specification of the four traversals, with the scheduling of the event loop: *)
(* every collaborator query returns, so a traversal that can take a step   *)
(* takes it.                                                               *)
(***************************************************************************)
InitLive ==
    /\ sites \in SeqsUpTo(CallSites(Funcs), MaxLiveSites)
    /\ assigns = <<>>
    /\ timed_out = {}
    /\ OneDirectCall
    /\ enable_callback_search = TRUE
    /\ defFile = DefMapA
    /\ op \in {"trace_callers", "trace_callees", "find_call_paths",
                "get_function_depth_map"}
    /\ target \in Funcs
    /\ to_function = "T"
    /\ roots \in {<<target>>, <<"A", "B">>}
    /\ max_depth \in DepthArgs
    /\ exclude_functions = {}
    /\ exclude_directories = {}
    /\ stack = <<>>
    /\ visited = {}
    /\ paths = <<>>
    /\ depth_map = EmptyDepthMap
    /\ queue = <<>>
    /\ result = <<>>
    /\ pc = "start"
    /\ NoPathAnalysis

NextLive ==
    \/ TraceStart
    \/ TraceDescend
    \/ TraceAscend
    \/ TraceReturn
    \/ FindStart
    \/ FindDescend
    \/ FindAscend
    \/ FindReturn
    \/ DepthStart
    \/ DepthStep
    \/ DepthReturn

SpecLive == InitLive /\ [][NextLive]_vars /\ WF_vars(NextLive)

(***************************************************************************)
(* Specification of get_call_statistics                                    *)
(***************************************************************************)
InitStats ==
    /\ sites \in SeqsUpTo(CallSites(Funcs), MaxSites)
    /\ assigns = <<>>
    /\ timed_out = {}
    /\ OneDirectCall
    /\ enable_callback_search = TRUE
    /\ defFile = DefMapA
    /\ op = "get_call_statistics"
    /\ target \in Funcs
    /\ to_function = "T"
    /\ roots = <<>>
    /\ max_depth = None
    /\ exclude_functions = {}
    /\ exclude_directories = {}
    /\ stack = <<>>
    /\ visited = {}
    /\ paths = <<>>
    /\ depth_map = EmptyDepthMap
    /\ queue = <<>>
    /\ result = <<>>
    /\ pc = "start"
    /\ NoPathAnalysis

NextStats == GetCallStatistics

SpecStats == InitStats /\ [][NextStats]_vars

(***************************************************************************)
(* Specification of _analyze_path_locks on one call path                   *)
(***************************************************************************)
LockLines == {10, 15}

\* The analysed paths: the final function alone, with its direct caller,
\* and with a function between the outermost caller and the final function.
LockPaths == { <<"B">>, <<"A", "B">>, <<"A", "M", "B">> }

\* The functions whose bodies hold the call sites: those of the path, the
\* final function left out on the longest path.
LockCallers(path) == IF Len(path) = 3 THEN {"A", "M"} ELSE Range(path)

LockSites(callers) ==
    { [caller |-> f, callee |-> c[1], line |-> l, context |-> c[2]] :
          f \in callers, c \in LockCalls, l \in LockLines }

InitLock ==
    /\ call_path \in LockPaths
    /\ sites \in SeqsUpTo(LockSites(LockCallers(call_path)), MaxLockSites)
    /\ assigns = <<>>
    /\ timed_out = {}
    /\ OneDirectCall
    /\ enable_callback_search = TRUE
    /\ defFile = DefMapA
    /\ op = "analyze_path_locks"
    /\ target = "B"
    /\ to_function = "T"
    /\ roots = <<>>
    /\ max_depth = None
    /\ exclude_functions = {}
    /\ exclude_directories = {}
    /\ stack = <<>>
    /\ visited = {}
    /\ paths = <<>>
    /\ depth_map = EmptyDepthMap
    /\ queue = <<>>
    /\ result = <<>>
    /\ pc = "start"
    /\ target_locks \in LockFilters
    /\ walk_i = 0
    /\ held_locks = {}
    /\ protected_by_locks = {}
    /\ all_operations = <<>>
    /\ unique_only = TRUE
    /\ call_paths = <<>>
    /\ contexts = <<>>

NextLock ==
    \/ AnalyzePathLocksStart
    \/ AnalyzePathLocksStep
    \/ AnalyzePathLocksReturn

SpecLock == InitLock /\ [][NextLock]_vars

(***************************************************************************)
(* Specification of check_lock_protection, find_unprotected_calls and      *)
(* get_lock_summary                                                        *)
(***************************************************************************)
\* The functions that call the target, and what their bodies may hold: the
\* lock calls on one line, the call of the target on a later one.
ContextCallers == {"A", "C"}

ContextSites ==
    { [caller |-> f, callee |-> c[1], line |-> IF c[1] = "B" THEN 15 ELSE 10,
       context |-> c[2]] :
          f \in ContextCallers,
          c \in { d \in LockCalls : d[1] # "rtnl_unlock" } }

\* <<operation, target_locks, unique_only>>: get_lock_summary passes neither
\* a filter nor unique_only.
ContextQueries ==
    ({"check_lock_protection"} \X { <<"L">>, <<"rtnl">> } \X BOOLEAN)
    \cup ({"find_unprotected_calls"}
             \X { <<"L">>, <<"L", "rtnl_lock">> } \X BOOLEAN)
    \cup { <<"get_lock_summary", <<>>, TRUE>> }

InitContext ==
    /\ sites \in SeqsUpTo(ContextSites, MaxContextSites)
    /\ assigns = <<>>
    /\ timed_out = {}
    /\ OneDirectCall
    /\ enable_callback_search = TRUE
    /\ defFile = DefMapA
    /\ \E q \in ContextQueries :
           op = q[1] /\ target_locks = q[2] /\ unique_only = q[3]
    /\ target = "B"
    /\ to_function = "T"
    /\ roots = <<>>
    /\ max_depth = None
    /\ exclude_functions = {}
    /\ exclude_directories = {}
    /\ stack = <<>>
    /\ visited = {}
    /\ paths = <<>>
    /\ depth_map = EmptyDepthMap
    /\ queue = <<>>
    /\ result = <<>>
    /\ pc = "start"
    /\ call_path = <<>>
    /\ walk_i = 0
    /\ held_locks = {}
    /\ protected_by_locks = {}
    /\ all_operations = <<>>
    /\ call_paths = <<>>
    /\ contexts = <<>>

NextContext ==
    \/ TraceStart
    \/ TraceDescend
    \/ TraceAscend
    \/ AnalyzeLockContextTraced
    \/ AnalyzeLockContextNextPath
    \/ AnalyzePathLocksStep
    \/ AnalyzeLockContextAppend
    \/ CheckLockProtectionReturn
    \/ FindUnprotectedCallsReturn
    \/ GetLockSummaryReturn

SpecContext == InitContext /\ [][NextContext]_vars

(***************************************************************************)
(* Specification of the operations when a query may time out               *)
(***************************************************************************)
\* A and C call B; A takes a lock before it does.
TimeoutSites ==
    { [caller |-> f, callee |-> "B", line |-> 15, context |-> "B()"] :
          f \in ContextCallers }
    \cup { [caller |-> "A", callee |-> "spin_lock", line |-> 10,
            context |-> "spin_lock(&L)"] }

QueryKinds == {"called_by", "calling", "assignments", "exists", "definition"}

\* No query times out, or the queries of one kind for one function do.
Timeouts ==
    {{}} \cup { {<<k, f>>} : k \in QueryKinds, f \in ContextCallers \cup {"B"} }

\* <<operation, target, target_locks>>; T is a function without definition.
TimeoutQueries ==
    { <<"trace_callers", "B", <<>>>>,
      <<"trace_callees", "A", <<>>>>,
      <<"check_lock_protection", "B", <<"L">>>>,
      <<"get_call_statistics", "B", <<>>>>,
      <<"function_exists", "A", <<>>>>,
      <<"function_exists", "T", <<>>>>,
      <<"find_function_definition", "A", <<>>>>,
      <<"find_function_definition", "T", <<>>>> }

InitTimeout ==
    /\ sites \in SeqsUpTo(TimeoutSites, MaxTimeoutSites)
    /\ timed_out \in Timeouts
    /\ OneDirectCall
    /\ assigns = <<>>
    /\ enable_callback_search = TRUE
    /\ defFile = DefMapA
    /\ \E q \in TimeoutQueries :
           op = q[1] /\ target = q[2] /\ target_locks = q[3]
    /\ unique_only = TRUE
    /\ to_function = "T"
    /\ roots = <<>>
    /\ max_depth = None
    /\ exclude_functions = {}
    /\ exclude_directories \in { {}, {NetDir} }
    /\ stack = <<>>
    /\ visited = {}
    /\ paths = <<>>
    /\ depth_map = EmptyDepthMap
    /\ queue = <<>>
    /\ result = <<>>
    /\ pc = "start"
    /\ call_path = <<>>
    /\ walk_i = 0
    /\ held_locks = {}
    /\ protected_by_locks = {}
    /\ all_operations = <<>>
    /\ call_paths = <<>>
    /\ contexts = <<>>

NextTimeout ==
    \/ TraceStart
    \/ TraceStartRaises
    \/ TraceDescend
    \/ TraceDescendRaises
    \/ TraceAscend
    \/ TraceReturn
    \/ AnalyzeLockContextTraced
    \/ AnalyzeLockContextNextPath
    \/ AnalyzePathLocksStep
    \/ AnalyzePathLocksRaises
    \/ AnalyzeLockContextAppend
    \/ CheckLockProtectionReturn
    \/ GetCallStatistics
    \/ GetCallStatisticsRaises
    \/ FunctionExists
    \/ FindFunctionDefinition

SpecTimeout == InitTimeout /\ [][NextTimeout]_vars

(***************************************************************************)
(* Specification of the CLI commands                                       *)
(***************************************************************************)
\* The locks named on the command line.
CommandLocks(cmd) ==
    IF cmd \in {"lock-check", "unprotected"} THEN <<"L">> ELSE <<>>

\* B is defined, T is not; the existence query for B may time out.
InitCli ==
    /\ sites \in SeqsUpTo(TimeoutSites, MaxCliSites)
    /\ timed_out \in { {}, {<<"exists", "B">>} }
    /\ assigns = <<>>
    /\ enable_callback_search = TRUE
    /\ defFile = DefMapA
    /\ command \in Commands
    /\ target_locks = CommandLocks(command)
    /\ op = ""
    /\ target \in {"B", "T"}
    /\ invoked = <<>>
    /\ unique_only = TRUE
    /\ to_function = "T"
    /\ roots = <<>>
    /\ max_depth = None
    /\ exclude_functions = {}
    /\ exclude_directories = {}
    /\ stack = <<>>
    /\ visited = {}
    /\ paths = <<>>
    /\ depth_map = EmptyDepthMap
    /\ queue = <<>>
    /\ result = <<>>
    /\ pc = "command"
    /\ call_path = <<>>
    /\ walk_i = 0
    /\ held_locks = {}
    /\ protected_by_locks = {}
    /\ all_operations = <<>>
    /\ call_paths = <<>>
    /\ contexts = <<>>
    /\ other = None
    /\ call_graph = EmptyCallGraph
    /\ returned_graphs = <<>>

NextCli ==
    \/ CliReportNotFound
    \/ CliInvoke
    \/ CliStatsLockSummary
    \/ TraceStart
    \/ TraceDescend
    \/ TraceAscend
    \/ TraceReturn
    \/ UniqueCallChainsReturn
    \/ UniqueCalleeChainsReturn
    \/ GetCallStatistics
    \/ AnalyzeLockContextTraced
    \/ AnalyzeLockContextNextPath
    \/ AnalyzePathLocksStep
    \/ AnalyzeLockContextAppend
    \/ AnalyzeLockContextReturn
    \/ CheckLockProtectionReturn
    \/ FindUnprotectedCallsReturn
    \/ GetLockSummaryReturn

SpecCli == InitCli /\ [][NextCli]_vars

(***************************************************************************)
(* Specification of the callback search                                    *)
(***************************************************************************)
\* The struct fields a function may be assigned to.
Operations == {"ndo_open", "ndo_stop"}

\* Calls of the target and calls through a field, made by A and by C.
CallbackSites ==
    [caller : {"A", "C"}, callee : {"B"} \cup Operations, line : {0}, context : {""}]

\* FunctionAssignment(function, operation, ...): ".operation = function".
Assignments == [function : {"B", "T"}, operation : Operations]

InitCallback ==
    /\ sites \in SeqsUpTo(CallbackSites, MaxCallbackSites)
    /\ assigns \in SeqsUpTo(Assignments, MaxAssigns)
    /\ timed_out = {}
    /\ OneDirectCall
    /\ \/ op = "get_callback_callers" /\ enable_callback_search = TRUE
       \/ op = "trace_callers" /\ enable_callback_search \in BOOLEAN
    /\ defFile = DefMapA
    /\ target = "B"
    /\ to_function = "T"
    /\ roots = <<>>
    /\ max_depth = None
    /\ exclude_functions = {}
    /\ exclude_directories = {}
    /\ stack = <<>>
    /\ visited = {}
    /\ paths = <<>>
    /\ depth_map = EmptyDepthMap
    /\ queue = <<>>
    /\ result = <<>>
    /\ pc = "start"
    /\ NoPathAnalysis

NextCallback ==
    \/ GetCallbackCallers
    \/ TraceStart
    \/ TraceDescend
    \/ TraceAscend
    \/ TraceReturn

SpecCallback == InitCallback /\ [][NextCallback]_vars

(***************************************************************************)
(* Specification of two interleaved top-level invocations                  *)
(***************************************************************************)
\* <<operation, target, to_function>>
ConcurrentCalls ==
    { <<"trace_callers", "T", "T">>,
      <<"trace_callees", "T", "T">>,
      <<"find_call_paths", "A", "T">> }

InitConcurrent ==
    /\ sites \in SeqsUpTo(CallSites(Funcs), MaxPairSites)
    /\ assigns = <<>>
    /\ timed_out = {}
    /\ enable_callback_search = TRUE
    /\ defFile = DefMapA
    /\ \E c \in ConcurrentCalls :
           op = c[1] /\ target = c[2] /\ to_function = c[3]
    /\ \E c \in ConcurrentCalls :
           other = Invocation(c[1], c[2], c[3], None, <<>>, {}, <<>>, <<>>, "start")
    /\ roots = <<>>
    /\ max_depth = None
    /\ exclude_functions = {}
    /\ exclude_directories = {}
    /\ stack = <<>>
    /\ visited = {}
    /\ paths = <<>>
    /\ depth_map = EmptyDepthMap
    /\ queue = <<>>
    /\ result = <<>>
    /\ pc = "start"
    /\ NoPathAnalysis
    /\ call_graph = EmptyCallGraph
    /\ returned_graphs = <<>>
    /\ command = ""
    /\ invoked = <<>>

NextConcurrent ==
    \/ TraceStart
    \/ TraceDescend
    \/ TraceAscend
    \/ TraceReturn
    \/ FindStart
    \/ FindDescend
    \/ FindAscend
    \/ FindReturn
    \/ Resume

SpecConcurrent == InitConcurrent /\ [][NextConcurrent]_vars

(***************************************************************************)
(* Properties of the trace operations                                      *)
(***************************************************************************)
Names == Range(NameOrder)

Done == pc = "done"

PathSet(ps) == { ps[i].functions : i \in 1..Len(ps) }

NoRepeat(c) == \A i, j \in 1..Len(c) : c[i] = c[j] => i = j

\* f calls g, as the caller lookup of trace_callers sees it.
IsCallerOf(f, g) == f \in Range(FunctionsOf(TraceCallersOf(g)))

\* f calls g, as the callee lookup sees it.
IsCalleeOf(g, f) == g \in Range(FunctionsOf(get_functions_called_by(f)))

\* Sequences of distinct names with at most d edges.
SimpleSeqs(d) ==
    { c \in UNION { [1..n -> Names] : n \in 1..Cardinality(Names) } :
        Len(c) <= d + 1 /\ NoRepeat(c) }

\* Acyclic caller chains ending at t, outermost caller first.
CallerChains(t, d) ==
    { c \in SimpleSeqs(d) :
        /\ c[Len(c)] = t
        /\ \A i \in 1..(Len(c) - 1) : IsCallerOf(c[i], c[i + 1]) }

\* Acyclic callee chains starting at t.
CalleeChains(t, d) ==
    { c \in SimpleSeqs(d) :
        /\ c[1] = t
        /\ \A i \in 1..(Len(c) - 1) : IsCalleeOf(c[i + 1], c[i]) }

NotExcluded(C) ==
    { c \in C : ~should_exclude_path(c, exclude_functions, exclude_directories) }

\* C1: trace_callers returns exactly the non-excluded acyclic caller chains
\* of at most max_depth edges that end at the target (outermost caller
\* first), and trace_callees exactly the non-excluded acyclic callee chains
\* that start at the source.
C1_TraceReturnsExactlyTheChains ==
    /\ (Done /\ op = "trace_callers") =>
           PathSet(result) = NotExcluded(CallerChains(target, EffectiveDepth(max_depth)))
    /\ (Done /\ op = "trace_callees") =>
           PathSet(result) = NotExcluded(CalleeChains(target, EffectiveDepth(max_depth)))

\* A finished trace_callers run that returned a chain of two functions
\* while an exclusion removed another chain and the depth bound cut a third.
C1_Witness ==
    /\ Done /\ op = "trace_callers"
    /\ \E c \in PathSet(result) : Len(c) = 2
    /\ NotExcluded(CallerChains(target, EffectiveDepth(max_depth)))
           # CallerChains(target, EffectiveDepth(max_depth))
    /\ CallerChains(target, EffectiveDepth(max_depth))
           # CallerChains(target, Cardinality(Names))

\* The call relation has a cycle through f.
OnTwoCycle(f) == \E g \in Names : g # f /\ IsCallerOf(f, g) /\ IsCallerOf(g, f)

\* C2: no path returned by trace_callers or trace_callees names the same
\* function twice, whatever cycles the call relation has.
C2_NoFunctionTwiceOnAPath ==
    (Done /\ op \in {"trace_callers", "trace_callees"}) =>
        \A c \in PathSet(result) : NoRepeat(c)

\* A finished trace over a relation with a cycle through the queried
\* function, deep enough to walk around the cycle.
C2_Witness ==
    /\ Done /\ op = "trace_callers"
    /\ OnTwoCycle(target)
    /\ EffectiveDepth(max_depth) >= 2
    /\ \E c \in PathSet(result) : Len(c) = 2

\* C3: every returned CallPath has depth <= max_depth and
\* depth = len(functions) - 1; at the bound the expansion just stops.
C3_DepthWithinBound ==
    (Done /\ op \in {"trace_callers", "trace_callees"}) =>
        \A i \in 1..Len(result) :
            /\ result[i].depth <= EffectiveDepth(max_depth)
            /\ result[i].depth = Len(result[i].functions) - 1

\* A finished run that hit the bound: a returned path of max_depth edges
\* whose outermost function has a caller that is not on the path.
C3_Witness ==
    /\ Done /\ op = "trace_callers"
    /\ \E i \in 1..Len(result) :
           /\ result[i].depth = EffectiveDepth(max_depth)
           /\ \E f \in Names :
                  /\ IsCallerOf(f, result[i].functions[1])
                  /\ f \notin Range(result[i].functions)

\* C6: get_unique_call_chains returns no two paths one of which is a suffix
\* of the other (so no sequence twice), and get_unique_callee_chains no two
\* paths one of which is a prefix of the other.
C6_UniqueChainsNotSubsumed ==
    /\ (Done /\ op = "get_unique_call_chains") =>
           \A i, j \in 1..Len(result) :
               i # j => ~IsSuffix(result[i].functions, result[j].functions)
    /\ (Done /\ op = "get_unique_callee_chains") =>
           \A i, j \in 1..Len(result) :
               i # j => ~IsPrefix(result[i].functions, result[j].functions)

\* A finished get_unique_call_chains run whose trace held a sequence twice
\* and a proper suffix of another traced path, and that kept two chains.
C6_Witness ==
    /\ Done /\ op = "get_unique_call_chains"
    /\ \E i, j \in 1..Len(paths) : i # j /\ paths[i].functions = paths[j].functions
    /\ \E i, j \in 1..Len(paths) :
           /\ Len(paths[i].functions) < Len(paths[j].functions)
           /\ IsSuffix(paths[i].functions, paths[j].functions)
    /\ Len(result) = 2

\* C7: no path returned by the four trace operations names a function of
\* exclude_functions, chains that run on past an excluded function included.
C7_NoExcludedFunctionOnAPath ==
    (Done /\ IsTraceOp) =>
        \A c \in PathSet(result) : Range(c) \cap exclude_functions = {}

\* A finished run where an excluded function has a caller of its own, so
\* that a longer chain runs through it, and something is still returned.
C7_Witness ==
    /\ Done /\ op = "trace_callers"
    /\ \E c \in CallerChains(target, EffectiveDepth(max_depth)) :
           Len(c) = 3 /\ c[2] \in exclude_functions
    /\ result # <<>>

\* The function's definition is resolved to a file that contains a member
\* of exclude_directories.
InExcludedDirectory(f) ==
    /\ find_function_definition(f) # None
    /\ LET file == find_function_definition(f)[1]
       IN  \E d \in exclude_directories :
               \E head, tail \in 0..Len(file) :
                   /\ head + Len(d) + tail = Len(file)
                   /\ SubSeq(file, head + 1, head + Len(d)) = d

\* C8: no returned path names a function whose resolved definition file
\* contains a member of exclude_directories as a substring, and a chain of
\* unresolved functions is never removed by exclude_directories.
C8_NoExcludedDirectoryOnAPath ==
    /\ (Done /\ IsTraceOp) =>
           \A c \in PathSet(result) : \A f \in Range(c) : ~InExcludedDirectory(f)
    /\ (Done /\ op = "trace_callers" /\ exclude_functions = {}) =>
           \A c \in CallerChains(target, EffectiveDepth(max_depth)) :
               (\A f \in Range(c) : find_function_definition(f) = None)
                   => c \in PathSet(result)

\* A finished run that excluded "net": A, defined under internet/, is a
\* caller of the target and is on no returned path, while the unresolved
\* target is returned.
C8_Witness ==
    /\ Done /\ op = "trace_callers"
    /\ exclude_directories = {NetDir}
    /\ find_function_definition("A") = Some(InternetFile)
    /\ <<"A", target>> \in CallerChains(target, EffectiveDepth(max_depth))
    /\ find_function_definition(target) = None
    /\ <<target>> \in PathSet(result)

(***************************************************************************)
(* Properties of find_call_paths, get_function_depth_map and termination   *)
(***************************************************************************)
\* Callee-edge paths from f to t that repeat no function, of at most d edges.
FindChains(f, t, d) ==
    { c \in SimpleSeqs(d) :
        /\ c[1] = f
        /\ c[Len(c)] = t
        /\ \A i \in 1..(Len(c) - 1) : IsCalleeOf(c[i + 1], c[i]) }

\* C10: find_call_paths returns exactly the callee-edge paths from
\* from_function to to_function of at most max_depth edges that repeat no
\* function; a function met on one branch is still used on a sibling branch.
C10_FindReturnsExactlyThePaths ==
    (Done /\ op = "find_call_paths") =>
        PathSet(result) = FindChains(target, to_function, EffectiveDepth(max_depth))

\* A finished search that returned two paths which leave from_function by
\* different callees and then share an intermediate function.
C10_Witness ==
    /\ Done /\ op = "find_call_paths"
    /\ \E p, q \in PathSet(result) :
           /\ Len(p) >= 3 /\ Len(q) >= 3
           /\ p[2] # q[2]
           /\ (Range(p) \cap Range(q)) \ {target, to_function} # {}

\* Functions within k callee edges of a root.
RECURSIVE ReachWithin(_)
ReachWithin(k) ==
    IF k = 0 THEN Range(roots)
    ELSE LET R == ReachWithin(k - 1)
         IN  R \cup { g \in Names : \E f \in R : IsCalleeOf(g, f) }

Reachable == ReachWithin(Cardinality(Names))

MinDepth(f) == CHOOSE k \in 0..Cardinality(Names) :
                   /\ f \in ReachWithin(k)
                   /\ \A j \in 0..(k - 1) : f \notin ReachWithin(j)

\* The head of the queue proposes a depth for a function whose recorded
\* depth is not larger.
StaleProposal ==
    /\ pc = "mapping" /\ queue # <<>>
    /\ depth_map[Head(queue).function] # None
    /\ depth_map[Head(queue).function][1] <= Head(queue).depth

\* C9: get_function_depth_map returns a map whose keys are the roots and
\* the functions reachable from them over callee edges, each mapped to its
\* least number of callee edges from a root; a proposal that is not smaller
\* than the recorded depth is dropped and leaves the map as it is.
C9_DepthMapIsMinimumDepth ==
    /\ [](Done =>
            \A f \in Names :
                IF f \in Reachable THEN result[f] = Some(MinDepth(f))
                ELSE result[f] = None)
    /\ [][StaleProposal => (depth_map' = depth_map /\ queue' = Tail(queue))]_vars
    /\ [][\A f \in Names :
             depth_map[f] # None =>
                 (depth_map'[f] # None /\ depth_map'[f][1] <= depth_map[f][1])]_vars

\* A finished run where a function at depth 1 was proposed again at depth 2
\* by another function of depth 1.
C9_Witness ==
    /\ Done /\ op = "get_function_depth_map"
    /\ \E f, g \in Names :
           /\ f # g
           /\ result[f] = Some(1) /\ result[g] = Some(1)
           /\ IsCalleeOf(f, g)

\* C4: on every finite call relation, cyclic ones included, trace_callers,
\* trace_callees, find_call_paths and get_function_depth_map terminate when
\* every collaborator query returns.
C4_TraversalsTerminate == <>Done

\* No traversal runs into the cap on queued depths.
QueueDepthWithinCap ==
    \A i \in 1..Len(queue) : queue[i].depth <= MaxQueueDepth

\* A finished get_function_depth_map run over a relation with a cycle that
\* the roots reach.
C4_Witness ==
    /\ Done /\ op = "get_function_depth_map"
    /\ \E f, g \in Reachable : f # g /\ IsCalleeOf(f, g) /\ IsCalleeOf(g, f)

(***************************************************************************)
(* Properties of _analyze_path_locks                                       *)
(***************************************************************************)
\* The lines at which the direct caller calls the final function of the path.
FinalCallLines ==
    { c.line : c \in { d \in Range(get_functions_called_by(call_path[Len(call_path) - 1])) :
                          d.function = call_path[Len(call_path)] } }

\* The operation o of the i-th path function comes before the call of the
\* final function: always so above the direct caller.
BeforeTheCall(i, o) ==
    i < Len(call_path) - 1 \/ \A l \in FinalCallLines : o.line < l

\* The operation o of the i-th path function may take part in the tracking.
MayBeProcessed(i, o) ==
    \/ i < Len(call_path) - 1
    \/ FinalCallLines = {}
    \/ \E l \in FinalCallLines : o.line < l

\* A release of the lock of the k-th operation of the i-th path function
\* is processed after it.
ReleasedAfterwards(i, k) ==
    \E i2 \in 1..(Len(call_path) - 1) :
        \E k2 \in 1..Len(find_lock_operations(call_path[i2])) :
            LET r == find_lock_operations(call_path[i2])[k2]
            IN  /\ i2 > i \/ (i2 = i /\ k2 > k)
                /\ r.operation = "release"
                /\ r.lock_name = find_lock_operations(call_path[i])[k].lock_name
                /\ MayBeProcessed(i2, r)

\* C5: a lock acquired by a non-final function of the path (on a line
\* before the call of the final function, for the direct caller) and not
\* released by an operation processed afterwards is in the returned held
\* set, for an unfiltered query and for a query whose filter matches the lock.
C5_AcquiredAndNotReleasedIsHeld ==
    (pc = "done" /\ op = "analyze_path_locks") =>
        \A i \in 1..(Len(call_path) - 1) :
            \A k \in 1..Len(find_lock_operations(call_path[i])) :
                LET a == find_lock_operations(call_path[i])[k]
                IN  ( /\ a.operation = "acquire"
                      /\ BeforeTheCall(i, a)
                      /\ target_locks = <<>> \/ lock_matches_target(a.lock_name, target_locks)
                      /\ ~ ReleasedAfterwards(i, k) )
                        => a.lock_name \in result.held_locks

C5_Witness ==
    /\ pc = "done"
    /\ op = "analyze_path_locks"
    /\ call_path = <<"A", "B">>
    /\ target_locks = <<"L">>
    /\ sites = << [caller |-> "A", callee |-> "spin_lock", line |-> 10,
                   context |-> "spin_lock(&L)"],
                  [caller |-> "A", callee |-> "B", line |-> 15, context |-> "B()"] >>
    /\ result.held_locks = {"L"}

\* The final function of the analysed path.
FinalFunction == call_path[Len(call_path)]

\* The lock operations of the non-final path functions, in path order.
RECURSIVE OperationsUpTo(_)
OperationsUpTo(i) ==
    IF i = 0 THEN <<>>
    ELSE OperationsUpTo(i - 1) \o find_lock_operations(call_path[i])

\* Some non-final path function acquires the lock n.
AcquiredOnPath(n) ==
    \E i \in 1..(Len(call_path) - 1) :
        \E a \in Range(find_lock_operations(call_path[i])) :
            a.operation = "acquire" /\ a.lock_name = n

\* C12: the final function of the path is never scanned.  The returned
\* lock operations are those of the non-final functions only, every held
\* lock is acquired by a non-final function, a lock acquired before the
\* call and released by no non-final function stays held whatever the body
\* of the final function does, and a one-element path gives an empty held
\* set and no lock operations.
C12_FinalFunctionNotScanned ==
    (pc = "done" /\ op = "analyze_path_locks") =>
        /\ result.lock_operations = OperationsUpTo(Len(call_path) - 1)
        /\ \A o \in Range(result.lock_operations) : o.function # FinalFunction
        /\ \A n \in result.held_locks : AcquiredOnPath(n)
        /\ \A i \in 1..(Len(call_path) - 1) :
               \A k \in 1..Len(find_lock_operations(call_path[i])) :
                   LET a == find_lock_operations(call_path[i])[k]
                   IN  ( /\ a.operation = "acquire"
                         /\ BeforeTheCall(i, a)
                         /\ target_locks = <<>>
                                \/ lock_matches_target(a.lock_name, target_locks)
                         /\ \E r \in Range(find_lock_operations(FinalFunction)) :
                                r.operation = "release" /\ r.lock_name = a.lock_name
                         /\ ~ ReleasedAfterwards(i, k) )
                           => a.lock_name \in result.held_locks
        /\ Len(call_path) = 1 =>
               (result.held_locks = {} /\ result.lock_operations = <<>>)

\* A acquires L and calls B, B releases L: L is held on reaching B.
C12_Witness ==
    /\ pc = "done" /\ op = "analyze_path_locks"
    /\ call_path = <<"A", "B">>
    /\ target_locks = <<"L">>
    /\ sites = << [caller |-> "A", callee |-> "spin_lock", line |-> 10,
                   context |-> "spin_lock(&L)"],
                  [caller |-> "A", callee |-> "B", line |-> 15, context |-> "B()"],
                  [caller |-> "B", callee |-> "spin_unlock", line |-> 10,
                   context |-> "spin_unlock(&L)"] >>
    /\ result.held_locks = {"L"}
    /\ Len(result.lock_operations) = 1

\* Every acquire of the lock n on the path is made by the direct caller of
\* the final function, on or after the lines of its calls of that function.
AcquiredOnlyAfterTheCall(n) ==
    /\ Len(call_path) > 1
    /\ FinalCallLines # {}
    /\ \A i \in 1..(Len(call_path) - 1) :
           \A a \in Range(find_lock_operations(call_path[i])) :
               (a.operation = "acquire" /\ a.lock_name = n) =>
                   /\ i = Len(call_path) - 1
                   /\ \A l \in FinalCallLines : a.line >= l

\* The lock names of the operations of the non-final path functions.
LockNamesOnPath ==
    { o.lock_name : o \in Range(OperationsUpTo(Len(call_path) - 1)) }

\* C13: a lock whose only acquires on the path are made by the direct
\* caller on a line not before its call of the final function is not in the
\* returned held set, with and without a filter.
C13_AcquireAfterTheCallIsNotHeld ==
    (pc = "done" /\ op = "analyze_path_locks") =>
        \A n \in LockNamesOnPath \cup result.held_locks :
            AcquiredOnlyAfterTheCall(n) => n \notin result.held_locks

\* A calls B at line 10 and takes L at line 15, in an unfiltered query: the
\* acquire is reported and L is not held.
C13_Witness ==
    /\ pc = "done" /\ op = "analyze_path_locks"
    /\ call_path = <<"A", "B">>
    /\ target_locks = <<>>
    /\ sites = << [caller |-> "A", callee |-> "B", line |-> 10, context |-> "B()"],
                  [caller |-> "A", callee |-> "spin_lock", line |-> 15,
                   context |-> "spin_lock(&L)"] >>
    /\ result.held_locks = {}
    /\ Len(result.lock_operations) = 1

\* The names of the locks whose acquire took part in the state tracking.
ProcessedAcquires ==
    { a.lock_name :
          a \in { o \in UNION { Range(TrackedOperations(i)) :
                                   i \in 1..(Len(call_path) - 1) } :
                     o.operation = "acquire" /\ matches_target(o) } }

\* The analysis returns: the walk is over and the LockContext is built.
PathAnalysisReturns == pc = "walking" /\ pc' = "done" /\ op = "analyze_path_locks"

\* C14: when an unfiltered analysis ends its walk with an empty held set
\* after processing at least one acquire, the returned held set is the set
\* of the names of all acquired locks; so an unfiltered query on a path
\* where rtnl_lock() is called before the call of the final function
\* returns "rtnl_lock" in the held set, rtnl_unlock() or not.
C14_ProtectionEvidenceReplacesEmptyHeldSet ==
    /\ [][ ( /\ PathAnalysisReturns
              /\ target_locks = <<>>
              /\ held_locks = {}
              /\ ProcessedAcquires # {} )
              => result'.held_locks = ProcessedAcquires ]_vars
    /\ []( ( /\ pc = "done" /\ op = "analyze_path_locks"
              /\ target_locks = <<>>
              /\ \E i \in 1..(Len(call_path) - 1) :
                     \E a \in Range(find_lock_operations(call_path[i])) :
                         /\ a.context = "rtnl_lock()"
                         /\ BeforeTheCall(i, a) )
              => "rtnl_lock" \in result.held_locks )

\* A takes and releases L and then calls B, in an unfiltered query: the
\* walk ends with nothing held and L is returned as held.
C14_Witness ==
    /\ pc = "done" /\ op = "analyze_path_locks"
    /\ call_path = <<"A", "B">>
    /\ target_locks = <<>>
    /\ sites = << [caller |-> "A", callee |-> "spin_lock", line |-> 10,
                   context |-> "spin_lock(&L)"],
                  [caller |-> "A", callee |-> "spin_unlock", line |-> 10,
                   context |-> "spin_unlock(&L)"],
                  [caller |-> "A", callee |-> "B", line |-> 15, context |-> "B()"] >>
    /\ protected_by_locks = {"L"}
    /\ result.held_locks = {"L"}

\* The release primitive that matches each acquire primitive, by call text.
MatchingRelease ==
    [ c \in {"spin_lock(&L)", "rtnl_lock()"} |->
          IF c = "spin_lock(&L)" THEN "spin_unlock(&L)" ELSE "rtnl_unlock()" ]

\* The position on the path of the function f.
PathIndex(f) == CHOOSE i \in 1..Len(call_path) : call_path[i] = f

\* The non-final path functions call the acquire primitive c and its
\* matching release only before the call of the final function, and the
\* last of these calls is the release.
AcquiredThenReleased(c) ==
    LET ops == OperationsUpTo(Len(call_path) - 1)
        fam == { k \in 1..Len(ops) : ops[k].context \in {c, MatchingRelease[c]} }
    IN  /\ \E k \in fam : ops[k].context = c
        /\ \A k \in fam : BeforeTheCall(PathIndex(ops[k].function), ops[k])
        /\ \E k \in fam : /\ ops[k].context = MatchingRelease[c]
                             /\ \A j \in fam : j <= k

\* The lock name given to the acquire primitive c.
AcquireName(c) ==
    LET ops == OperationsUpTo(Len(call_path) - 1)
    IN  ops[CHOOSE k \in 1..Len(ops) : ops[k].context = c].lock_name

\* C15: with a non-empty filter, a lock that a non-final function acquires
\* and then releases with the matching release primitive, both before the
\* call of the final function, is not in the returned held set; for
\* spin_lock(&L) / spin_unlock(&L) and for rtnl_lock() / rtnl_unlock().
C15_FilteredQueryReportsOnlyHeldLocks ==
    (pc = "done" /\ op = "analyze_path_locks" /\ target_locks # <<>>) =>
        \A c \in DOMAIN MatchingRelease :
            AcquiredThenReleased(c) => AcquireName(c) \notin result.held_locks

\* The part of C15 about locks named by their argument.
FilteredQueryDropsReleasedArgumentLock ==
    (pc = "done" /\ op = "analyze_path_locks" /\ target_locks # <<>>) =>
        (AcquiredThenReleased("spin_lock(&L)") => "L" \notin result.held_locks)

\* A calls rtnl_lock() and then rtnl_unlock(), M calls B, the filter is
\* "rtnl": "rtnl_lock" is returned as held.
ReleasedRtnlLockStillHeld ==
    /\ pc = "done" /\ op = "analyze_path_locks"
    /\ call_path = <<"A", "M", "B">>
    /\ target_locks = <<"rtnl">>
    /\ sites = << [caller |-> "A", callee |-> "rtnl_lock", line |-> 10,
                   context |-> "rtnl_lock()"],
                  [caller |-> "A", callee |-> "rtnl_unlock", line |-> 15,
                   context |-> "rtnl_unlock()"],
                  [caller |-> "M", callee |-> "B", line |-> 10, context |-> "B()"] >>
    /\ result.held_locks = {"rtnl_lock"}

\* The filter admits the lock name n.
FilterAdmits(n) == target_locks = <<>> \/ lock_matches_target(n, target_locks)

\* The names the function f acquires / releases that the filter admits.
AcquiredBy(f) ==
    { o.lock_name : o \in { x \in Range(find_lock_operations(f)) :
                               x.operation = "acquire" /\ FilterAdmits(x.lock_name) } }
ReleasedBy(f) ==
    { o.lock_name : o \in { x \in Range(find_lock_operations(f)) :
                               x.operation = "release" /\ FilterAdmits(x.lock_name) } }

\* C16: every returned held lock is the lock name of an acquire that the
\* filter admits and that a non-final path function performs; scanning a
\* function adds only names it acquires, removes from the held set only
\* names it releases, and removes nothing from the protection evidence;
\* the return removes nothing either.
C16_OnlyAcquiresAddOnlySameNameReleasesRemove ==
    /\ []( (pc = "done" /\ op = "analyze_path_locks") =>
              \A n \in result.held_locks :
                  \E i \in 1..(Len(call_path) - 1) : n \in AcquiredBy(call_path[i]) )
    /\ [][ (pc = "walking" /\ pc' = "walking") =>
              /\ (held_locks' \ held_locks) \subseteq AcquiredBy(call_path[walk_i])
              /\ (held_locks \ held_locks') \subseteq ReleasedBy(call_path[walk_i])
              /\ (protected_by_locks' \ protected_by_locks)
                     \subseteq AcquiredBy(call_path[walk_i])
              /\ protected_by_locks \subseteq protected_by_locks' ]_vars
    /\ [][ PathAnalysisReturns =>
              /\ held_locks \subseteq result'.held_locks
              /\ result'.held_locks \subseteq held_locks \cup protected_by_locks
              /\ protected_by_locks' = protected_by_locks ]_vars

\* A takes L, calls rtnl_unlock() and then B: the release of another name
\* leaves L held.
C16_Witness ==
    /\ pc = "done" /\ op = "analyze_path_locks"
    /\ call_path = <<"A", "B">>
    /\ sites = << [caller |-> "A", callee |-> "spin_lock", line |-> 10,
                   context |-> "spin_lock(&L)"],
                  [caller |-> "A", callee |-> "rtnl_unlock", line |-> 10,
                   context |-> "rtnl_unlock()"],
                  [caller |-> "A", callee |-> "B", line |-> 15, context |-> "B()"] >>
    /\ target_locks = <<>>
    /\ result.held_locks = {"L"}

(***************************************************************************)
(* Properties of get_call_statistics                                       *)
(***************************************************************************)
\* The call sites that call f, and the call sites in the body of f.
SitesCalling(f) == { i \in 1..Len(sites) : sites[i].callee = f }
SitesCalledBy(f) == { i \in 1..Len(sites) : sites[i].caller = f }

\* Two call sites calling f have the same caller; two call sites in f call
\* the same function.
DuplicateCaller(f) ==
    \E i, j \in SitesCalling(f) : i # j /\ sites[i].caller = sites[j].caller
DuplicateCallee(f) ==
    \E i, j \in SitesCalledBy(f) : i # j /\ sites[i].callee = sites[j].callee

\* C11: the unique counts are at most the raw counts, with equality in a
\* pair exactly when the raw query result repeats no function name.
C11_UniqueCountsAtMostRawCounts ==
    (pc = "done" /\ op = "get_call_statistics") =>
        /\ result.caller_count = Cardinality(SitesCalling(target))
        /\ result.callee_count = Cardinality(SitesCalledBy(target))
        /\ result.unique_callers <= result.caller_count
        /\ result.unique_callees <= result.callee_count
        /\ (result.unique_callers = result.caller_count) <=> ~ DuplicateCaller(target)
        /\ (result.unique_callees = result.callee_count) <=> ~ DuplicateCallee(target)

\* Statistics of a function with a repeated caller and distinct callees.
C11_Witness ==
    /\ pc = "done" /\ op = "get_call_statistics"
    /\ DuplicateCaller(target)
    /\ result.unique_callers < result.caller_count
    /\ result.callee_count > 0
    /\ result.unique_callees = result.callee_count

(***************************************************************************)
(* Properties of check_lock_protection, find_unprotected_calls and         *)
(* get_lock_summary                                                        *)
(***************************************************************************)
Returned(operation) == pc = "done" /\ op = operation

ContextIndices == 1..Len(contexts)

PathString(i) == Join(contexts[i].call_path)

\* analyze_lock_context produced one context for each call path it was
\* given, in the order of the paths.
ContextsFollowCallPaths ==
    /\ Len(contexts) = Len(call_paths)
    /\ \A i \in ContextIndices : contexts[i].call_path = call_paths[i].functions

\* C17: the map check_lock_protection returns has exactly the path strings
\* of the analysed contexts as its keys, and the value under a path string
\* is TRUE iff lock_name is in the held set of the context of that path.
C17_ProtectionMapTellsWhetherTheLockIsHeld ==
    Returned("check_lock_protection") =>
        /\ ContextsFollowCallPaths
        /\ DOMAIN result = { PathString(i) : i \in ContextIndices }
        /\ \A i \in ContextIndices :
               result[PathString(i)] <=> target_locks[1] \in contexts[i].held_locks

\* Two paths were analysed: one holds the lock asked for, the other does
\* not.
C17_Witness ==
    /\ Returned("check_lock_protection")
    /\ \E i, j \in ContextIndices :
           /\ result[PathString(i)]
           /\ ~result[PathString(j)]
           /\ Len(contexts[j].call_path) > 1

\* The contexts that lack a required lock, by position, and the position
\* of the k-th of them.
LackingIndices ==
    { i \in ContextIndices : ~(Range(target_locks) \subseteq contexts[i].held_locks) }

NthLacking(k) ==
    CHOOSE i \in LackingIndices :
        Cardinality({ j \in LackingIndices : j <= i }) = k

\* C18: find_unprotected_calls returns exactly the contexts whose held set
\* does not contain every required lock, in the order analyze_lock_context
\* produced them; holding some of the required locks is not enough.
C18_UnprotectedAreThoseLackingARequiredLock ==
    Returned("find_unprotected_calls") =>
        /\ ContextsFollowCallPaths
        /\ Len(result) = Cardinality(LackingIndices)
        /\ \A k \in 1..Len(result) : result[k] = contexts[NthLacking(k)]

\* Both L and rtnl_lock are required; a path that holds only one of them
\* is returned, after a path that holds neither.
C18_Witness ==
    /\ Returned("find_unprotected_calls")
    /\ Len(target_locks) = 2
    /\ \E k \in 2..Len(result) :
           /\ result[k].held_locks # {}
           /\ result[k].held_locks \subseteq Range(target_locks)
           /\ result[k - 1].held_locks = {}

\* Both L and rtnl_lock are required and a path that holds both is left out
\* of the result.
FullyProtectedPathIsLeftOut ==
    /\ Returned("find_unprotected_calls")
    /\ Len(target_locks) = 2
    /\ \E i \in ContextIndices :
           /\ Range(target_locks) \subseteq contexts[i].held_locks
           /\ \A k \in 1..Len(result) : result[k] # contexts[i]

\* The contexts get_lock_summary aggregates came from the unfiltered query
\* over the unique call chains.
UnfilteredContexts ==
    /\ target_locks = <<>>
    /\ unique_only
    /\ ContextsFollowCallPaths
    /\ call_paths = UniqueCallChains(paths)

HoldingIndices == { i \in ContextIndices : contexts[i].held_locks # {} }

\* C19: in the summary, total_call_paths is the number of contexts and the
\* sum of protected_paths and unprotected_paths, protected_paths counts the
\* contexts with a non-empty held set, locks_encountered lists every lock of
\* some held set exactly once, and lock_count is its length.
C19_SummaryAggregatesTheUnfilteredContexts ==
    Returned("get_lock_summary") =>
        /\ UnfilteredContexts
        /\ result.total_call_paths = Len(contexts)
        /\ result.total_call_paths = result.protected_paths + result.unprotected_paths
        /\ result.protected_paths = Cardinality(HoldingIndices)
        /\ \A k \in DOMAIN result.locks_encountered :
               \E i \in ContextIndices :
                   result.locks_encountered[k] \in contexts[i].held_locks
        /\ \A i \in ContextIndices :
               contexts[i].held_locks \subseteq Range(result.locks_encountered)
        /\ NoRepeat(result.locks_encountered)
        /\ result.lock_count = Len(result.locks_encountered)

\* One path holds a lock; another, on which a lock is only released, holds
\* none: one path is protected, one is not, one lock is listed.
C19_Witness ==
    /\ Returned("get_lock_summary")
    /\ result.protected_paths = 1
    /\ result.unprotected_paths = 1
    /\ result.lock_count = 1
    /\ \E i \in ContextIndices :
           contexts[i].held_locks = {} /\ contexts[i].lock_operations # <<>>

\* Two paths hold the same lock: it is listed once.
SharedLockIsListedOnce ==
    /\ Returned("get_lock_summary")
    /\ result.protected_paths = 2
    /\ result.lock_count = 1

(***************************************************************************)
(* Properties of query timeouts                                            *)
(***************************************************************************)
Raised == pc = "raised"

\* The kinds of query whose timeout is raised as a RuntimeError.
RaisingKinds == {"called_by", "calling", "assignments"}

\* The queries made for a function that a traversal has put on a path:
\* its callees, or its callers and, when it has none, its assignments.
QueriesForTraced(f) ==
    IF op = "trace_callees" THEN {<<"called_by", f>>}
    ELSE {<<"calling", f>>}
         \cup (IF \E i \in 1..Len(sites) : sites[i].callee = f THEN {}
               ELSE {<<"assignments", f>>})

NoneTimedOut(queries) == queries \cap timed_out = {}

\* No function of the paths was looked up by a query that timed out.
PathsAnsweredInTime(ps) ==
    \A i \in 1..Len(ps) :
        \A f \in Range(ps[i].functions) : NoneTimedOut(QueriesForTraced(f))

\* No function scanned for lock operations had its called-by query time out.
ContextsAnsweredInTime ==
    \A i \in ContextIndices :
        \A j \in 1..(Len(contexts[i].call_path) - 1) :
            NoneTimedOut({<<"called_by", contexts[i].call_path[j]>>})

\* C20: an operation ends by raising RuntimeError only if a called-by,
\* calling or assignment query timed out; it never goes on past such a
\* query that timed out, so what a traversal, a lock-protection check or the
\* statistics return rests on queries that were all answered.
\* function_exists returns FALSE and find_function_definition returns None
\* when their query times out, and neither ever raises.
C20_TimeoutsRaiseExceptForExistsAndDefinition ==
    /\ Raised =>
           /\ result = RuntimeError
           /\ \E q \in timed_out : q[1] \in RaisingKinds
           /\ op \notin {"function_exists", "find_function_definition"}
    /\ pc = "tracing" =>
           \A k \in 1..Len(stack) : NoneTimedOut(QueriesForTraced(stack[k].func))
    /\ pc = "walking" =>
           \A j \in 1..(walk_i - 1) :
               NoneTimedOut({<<"called_by", path_functions[j]>>})
    /\ Returned("trace_callers") \/ Returned("trace_callees") =>
           PathsAnsweredInTime(result)
    /\ Returned("check_lock_protection") =>
           PathsAnsweredInTime(call_paths) /\ ContextsAnsweredInTime
    /\ Returned("get_call_statistics") =>
           NoneTimedOut({<<"calling", target>>, <<"called_by", target>>})
    /\ Returned("function_exists") /\ QueryTimesOut("exists", target) =>
           result = FALSE
    /\ Returned("find_function_definition") /\ QueryTimesOut("definition", target) =>
           result = None

\* A lock-protection check raised after it had traced the callers and built
\* the context of one path: the contexts at hand are not returned.
C20_Witness ==
    /\ Raised
    /\ op = "check_lock_protection"
    /\ contexts # <<>>
    /\ result = RuntimeError

\* The definition query of a function in an excluded directory timed out:
\* the traversal returns the paths through it, and no error.
DefinitionTimeoutKeepsPath ==
    /\ Returned("trace_callers")
    /\ exclude_directories # {}
    /\ QueryTimesOut("definition", "A")
    /\ \E i \in 1..Len(result) : "A" \in Range(result[i].functions)

\* function_exists answers FALSE for a defined function because of a timeout.
ExistsTimeoutAnswersFalse ==
    /\ Returned("function_exists")
    /\ QueryTimesOut("exists", target)
    /\ defFile[target] # None
    /\ result = FALSE

(***************************************************************************)
(* Properties of interleaved invocations                                   *)
(***************************************************************************)
\* What an invocation returns when nothing else runs: the recursion of
\* _trace_recursive over the calls todo made at one depth with one path.
RECURSIVE TraceAlone(_, _, _, _, _)
TraceAlone(inv, todo, path, depth, vis) ==
    IF todo = <<>> THEN <<>>
    ELSE LET f == Head(todo)
             current_path == Append(path, f)
             emitted == IF inv.op = "trace_callers" THEN Reverse(current_path)
                        ELSE current_path
             next == IF inv.op = "trace_callers" THEN TraceCallersOf(f)
                     ELSE get_functions_called_by(f)
             here ==
                 IF depth > EffectiveDepth(inv.max_depth) \/ f \in vis THEN <<>>
                 ELSE (IF should_exclude_path(emitted, exclude_functions,
                                              exclude_directories)
                       THEN <<>>
                       ELSE <<CallPath(emitted, depth)>>)
                      \o TraceAlone(inv, FunctionsOf(next), current_path,
                                    depth + 1, vis \cup {f})
         IN  here \o TraceAlone(inv, Tail(todo), path, depth, vis)

\* The same for _find_paths_recursive, every call with a copy of the set.
RECURSIVE FindAlone(_, _, _, _, _)
FindAlone(inv, todo, path, depth, vis) ==
    IF todo = <<>> THEN <<>>
    ELSE LET f == Head(todo)
             here ==
                 IF depth > EffectiveDepth(inv.max_depth) THEN <<>>
                 ELSE IF f = inv.to_function
                 THEN <<CallPath(Append(path, f), depth)>>
                 ELSE IF f \in vis THEN <<>>
                 ELSE FindAlone(inv, FunctionsOf(get_functions_called_by(f)),
                                Append(path, f), depth + 1, vis \cup {f})
         IN  here \o FindAlone(inv, Tail(todo), path, depth, vis)

RunAlone(inv) ==
    IF inv.op = "find_call_paths"
    THEN FindAlone(inv, <<inv.target>>, <<>>, 0, {})
    ELSE TraceAlone(inv, <<inv.target>>, <<>>, 0, {})

ReturnsWhatItReturnsAlone(inv) == inv.pc = "done" => inv.result = RunAlone(inv)

\* C21: of two invocations of trace_callers, trace_callees or
\* find_call_paths interleaved at their awaits, each returns the list of
\* paths it returns when it runs alone.
C21_InterleavedInvocationsReturnWhatTheyReturnAlone ==
    other # None =>
        ReturnsWhatItReturnsAlone(Running) /\ ReturnsWhatItReturnsAlone(other)

\* Both invocations are under way, each with frames of its own, and a
\* function is in the visited sets of both.
C21_Witness ==
    /\ other # None
    /\ stack # <<>> /\ other.stack # <<>>
    /\ visited \cap other.visited # {}
    /\ paths # <<>> /\ other.paths # <<>>

\* Both invocations have returned, two paths or more each.
BothReturned ==
    /\ other # None
    /\ pc = "done" /\ other.pc = "done"
    /\ Len(result) >= 2 /\ Len(other.result) >= 2

(***************************************************************************)
(* Properties of the CLI commands                                          *)
(***************************************************************************)
\* A step in which a tracer or analyzer operation is called or goes on.
OperationRuns ==
    \/ invoked' # invoked
    \/ op' # op
    \/ <<stack, visited, paths, call_paths, contexts, walk_i>>'
           # <<stack, visited, paths, call_paths, contexts, walk_i>>

\* C22: in every command an operation is invoked only after function_exists
\* answered TRUE for the target; when it answers FALSE the command reports
\* "not found" and no tracer or analyzer operation is invoked or runs.
C22_NoOperationBeforeTheExistenceCheck ==
    /\ [][OperationRuns => function_exists(target)]_vars
    /\ []((command # "" /\ ~function_exists(target)) =>
              /\ invoked = <<>>
              /\ op = ""
              /\ pc \in {"command", "done"}
              /\ pc = "done" => result = NotFound)
    /\ [](invoked # <<>> => pc # "command")

\* A command on a function unknown to the database ended with the error and
\* without an operation, although the database lists callers of the function
\* it could have traced.
C22_Witness ==
    /\ command # ""
    /\ pc = "done"
    /\ result = NotFound
    /\ invoked = <<>>
    /\ get_functions_calling("B") # <<>>
    /\ target = "B"

\* The stats command invoked both of its operations after the check.
StatsInvokedBoth ==
    /\ command = "stats"
    /\ pc = "done"
    /\ invoked = <<"get_call_statistics", "get_lock_summary">>

(***************************************************************************)
(* Properties of the callback search                                       *)
(***************************************************************************)
\* The call sites of callee, as FunctionCall values in database order.
SitesOf(callee) ==
    LET at == SelectSeq([i \in 1..Len(sites) |-> i],
                        LAMBDA i : sites[i].callee = callee)
    IN  [k \in 1..Len(at) |->
            FunctionCall(sites[at[k]].caller, sites[at[k]].line, sites[at[k]].context)]

\* The fields the function is assigned to, in database order.
FieldsOf(function) ==
    LET at == SelectSeq([i \in 1..Len(assigns) |-> i],
                        LAMBDA i : assigns[i].function = function)
    IN  [k \in 1..Len(at) |-> assigns[at[k]].operation]

RECURSIVE CallersThroughFields(_)
CallersThroughFields(fields) ==
    IF fields = <<>> THEN <<>>
    ELSE SitesOf(Head(fields)) \o CallersThroughFields(Tail(fields))

\* C23: get_callback_callers returns the direct callers and issues the one
\* calling query when there is a direct caller; otherwise it returns, for
\* each assignment of the function in turn, all callers of the assigned
\* field, none of them removed.
C23_DirectCallersElseAllCallersOfAssignedFields ==
    Returned("get_callback_callers") =>
        IF SitesOf(target) # <<>>
        THEN /\ result = SitesOf(target)
             /\ invoked = <<<<"calling", target>>>>
        ELSE /\ result = CallersThroughFields(FieldsOf(target))
             /\ \A i \in 1..Len(invoked) : invoked[i][1] = "assignments" => i = 2
             /\ Len(invoked) = 2 + Len(FieldsOf(target))

\* The function has a direct caller and is assigned to a field that is
\* called as well: only the direct caller is returned.
C23_Witness ==
    /\ Returned("get_callback_callers")
    /\ Len(result) = 1
    /\ CallersThroughFields(FieldsOf(target)) # <<>>
    /\ SitesOf(target) # <<>>

\* The function has no direct caller and is assigned to two fields: the
\* callers of both are returned.
CallersOfTwoFields ==
    /\ Returned("get_callback_callers")
    /\ SitesOf(target) = <<>>
    /\ Len(FieldsOf(target)) = 2
    /\ FieldsOf(target)[1] # FieldsOf(target)[2]
    /\ Len(result) >= 2
    /\ \A fd \in Range(FieldsOf(target)) : SitesOf(fd) # <<>>

(***************************************************************************)
(* Specification of build_call_graph, called several times on one tracer   *)
(***************************************************************************)
InitGraph ==
    /\ sites \in SeqsUpTo(CallSites(Funcs), MaxGraphSites)
    /\ assigns = <<>>
    /\ timed_out = {}
    /\ OneDirectCall
    /\ enable_callback_search = TRUE
    /\ defFile = DefMapA
    /\ op = "build_call_graph"
    /\ target = "T"
    /\ to_function = "T"
    /\ roots = <<>>
    /\ max_depth = None
    /\ exclude_functions = {}
    /\ exclude_directories = {}
    /\ stack = <<>>
    /\ visited = {}
    /\ paths = <<>>
    /\ depth_map = EmptyDepthMap
    /\ queue = <<>>
    /\ result = <<>>
    /\ pc = "start"
    /\ NoPathAnalysis

NextGraph ==
    \/ BuildCallGraphStart
    \/ BuildCallGraphStep
    \/ BuildCallGraphReturn

SpecGraph == InitGraph /\ [][NextGraph]_vars

\* The functions one call or call site away from a function of S.
Neighbours(S) ==
    { sites[i].callee : i \in { j \in 1..Len(sites) : sites[j].caller \in S } }
    \cup { sites[i].caller : i \in { j \in 1..Len(sites) : sites[j].callee \in S } }

\* The functions reached from S through callers and callees in n steps.
RECURSIVE ReachedIn(_, _)
ReachedIn(S, n) == IF n = 0 THEN S ELSE ReachedIn(S \cup Neighbours(S), n - 1)

ReachedFrom(root_functions) == ReachedIn(Range(root_functions), Len(NameOrder))

\* The functions that have an entry in a graph.
Entries(graph) ==
    { f \in Range(NameOrder) : graph.callers[f] # None \/ graph.callees[f] # None }

\* The entries, now, of the object the k-th call returned: every call
\* returns the tracer's one graph.
ObjectReturnedBy(k) == call_graph

\* C24: the graph returned by build_call_graph(roots) has entries only for
\* the functions reached from the roots of that call, whatever calls were
\* made before on the same tracer, and a graph returned by an earlier call
\* is not changed by a later call.
C24_ReturnedGraphIsScopedToItsCall ==
    \A k \in 1..Len(returned_graphs) :
        /\ Entries(returned_graphs[k].graph) \subseteq ReachedFrom(returned_graphs[k].roots)
        /\ ObjectReturnedBy(k) = returned_graphs[k].graph

\* A second call returned entries for a function its roots do not reach,
\* and the graph the first call returned has an entry it did not have.
EarlierEntriesAreReturnedAgain ==
    /\ Len(returned_graphs) = 2
    /\ pc = "done"
    /\ Entries(returned_graphs[2].graph) \ ReachedFrom(returned_graphs[2].roots) # {}
    /\ Entries(ObjectReturnedBy(1)) \ Entries(returned_graphs[1].graph) # {}

\* The first call on a new tracer returns the entries of the functions
\* reached from its roots and no other, each with the answers of the two
\* queries.
FirstGraphHoldsTheReachedFunctions ==
    Len(returned_graphs) >= 1 =>
        LET first == returned_graphs[1]
        IN  /\ Entries(first.graph) = ReachedFrom(first.roots)
            /\ \A f \in Entries(first.graph) :
                   /\ first.graph.callees[f] = Some(get_functions_called_by(f))
                   /\ first.graph.callers[f] = Some(get_functions_calling(f))

\* Every graph returned holds at least the functions reached from the roots
\* of its call.
ReturnedGraphHoldsTheReachedFunctions ==
    \A k \in 1..Len(returned_graphs) :
        ReachedFrom(returned_graphs[k].roots) \subseteq Entries(returned_graphs[k].graph)

(***************************************************************************)
(* The lock operations listed in a context                                 *)
(***************************************************************************)
\* The call sites of function that are calls of a lock primitive, in the
\* order of the symbol database.
LockCallSites(function) ==
    SelectSeq(sites, LAMBDA c : /\ c.caller = function
                                /\ <<c.callee, c.context>> \in LockCalls
                                /\ ClassifiedCalls[<<c.callee, c.context>>].found # <<>>)

\* The lock call sites of the first i path functions, in path order.
RECURSIVE LockCallSitesUpTo(_)
LockCallSitesUpTo(i) ==
    IF i = 0 THEN <<>>
    ELSE LockCallSitesUpTo(i - 1) \o LockCallSites(call_path[i])

\* C25: the lock operations of a context returned by _analyze_path_locks
\* are all the lock operations of every non-final path function, in path
\* order: one for each lock call site, in the order of the sites, those on
\* a line after the call of the final function and those of a lock the
\* filter does not admit included.
C25_ListedOperationsIgnoreBothFilters ==
    (pc = "done" /\ op = "analyze_path_locks") =>
        LET listed == result.lock_operations
            expected == LockCallSitesUpTo(Len(call_path) - 1)
        IN  /\ Len(listed) = Len(expected)
            /\ \A k \in 1..Len(listed) :
                   /\ listed[k].function = expected[k].caller
                   /\ listed[k].line = expected[k].line
                   /\ listed[k].context = expected[k].context
            /\ \A i \in 1..(Len(call_path) - 1) :
                   \A o \in Range(find_lock_operations(call_path[i])) :
                       (~ matches_target(o) \/ ~ MayBeProcessed(i, o))
                           => o \in Range(listed)

\* A filtered query lists an operation of a lock the filter does not admit,
\* made by the direct caller after its call of the final function, and an
\* operation that took part in the tracking.
C25_Witness ==
    /\ pc = "done" /\ op = "analyze_path_locks"
    /\ target_locks # <<>>
    /\ Len(call_path) > 1
    /\ FinalCallLines # {}
    /\ \E o \in Range(result.lock_operations) :
           /\ ~ matches_target(o)
           /\ o.function = call_path[Len(call_path) - 1]
           /\ \A l \in FinalCallLines : o.line > l
    /\ \E o \in Range(result.lock_operations) :
           matches_target(o) /\ o.lock_name \in result.held_locks

(***************************************************************************)
(* The unique chains against the traced paths                              *)
(***************************************************************************)
\* C26: every path traced by trace_callers is a suffix of, or equal to, a
\* path returned by get_unique_call_chains with the same arguments, and
\* every path get_unique_call_chains returns is one of the traced paths;
\* the same with prefix for trace_callees and get_unique_callee_chains.
C26_UniqueChainsLoseNoTracedPath ==
    /\ (Done /\ op = "get_unique_call_chains") =>
           /\ \A i \in 1..Len(paths) : \E j \in 1..Len(result) :
                  IsSuffix(paths[i].functions, result[j].functions)
           /\ \A j \in 1..Len(result) : \E i \in 1..Len(paths) : result[j] = paths[i]
    /\ (Done /\ op = "get_unique_callee_chains") =>
           /\ \A i \in 1..Len(paths) : \E j \in 1..Len(result) :
                  IsPrefix(paths[i].functions, result[j].functions)
           /\ \A j \in 1..Len(result) : \E i \in 1..Len(paths) : result[j] = paths[i]

\* A finished get_unique_call_chains run that left out a traced path, a
\* proper suffix of a returned chain, and kept a chain shorter than another
\* returned chain.
C26_Witness ==
    /\ Done /\ op = "get_unique_call_chains"
    /\ \E i \in 1..Len(paths) :
           /\ \A j \in 1..Len(result) : result[j].functions # paths[i].functions
           /\ \E j \in 1..Len(result) :
                  IsSuffix(paths[i].functions, result[j].functions)
    /\ \E i, j \in 1..Len(result) :
           Len(result[i].functions) < Len(result[j].functions)

\* A finished get_unique_callee_chains run that left out a traced path, a
\* proper prefix of a returned chain.
CalleePrefixIsLeftOut ==
    /\ Done /\ op = "get_unique_callee_chains"
    /\ \E i \in 1..Len(paths) :
           /\ \A j \in 1..Len(result) : result[j].functions # paths[i].functions
           /\ \E j \in 1..Len(result) :
                  IsPrefix(paths[i].functions, result[j].functions)

(***************************************************************************)
(* Specification of get_lock_summary over callers that take and release a  *)
(* lock before and after their call of the target                          *)
(***************************************************************************)
\* A and C may call B at line 15, take L at line 10 or 20 and release it at
\* line 12; C may call A.
SummarySites ==
    { [caller |-> f, callee |-> c[1], line |-> c[3], context |-> c[2]] :
          f \in ContextCallers,
          c \in { <<"spin_lock", "spin_lock(&L)", 10>>,
                  <<"spin_lock", "spin_lock(&L)", 20>>,
                  <<"spin_unlock", "spin_unlock(&L)", 12>>,
                  <<"B", "B()", 15>> } }
    \cup { [caller |-> "C", callee |-> "A", line |-> 15, context |-> "A()"] }

InitSummary ==
    /\ sites \in SeqsUpTo(SummarySites, MaxSummarySites)
    /\ assigns = <<>>
    /\ timed_out = {}
    /\ OneDirectCall
    /\ enable_callback_search = TRUE
    /\ defFile = DefMapA
    /\ op = "get_lock_summary"
    /\ target_locks = <<>>
    /\ unique_only = TRUE
    /\ target = "B"
    /\ to_function = "T"
    /\ roots = <<>>
    /\ max_depth = None
    /\ exclude_functions = {}
    /\ exclude_directories = {}
    /\ stack = <<>>
    /\ visited = {}
    /\ paths = <<>>
    /\ depth_map = EmptyDepthMap
    /\ queue = <<>>
    /\ result = <<>>
    /\ pc = "start"
    /\ call_path = <<>>
    /\ walk_i = 0
    /\ held_locks = {}
    /\ protected_by_locks = {}
    /\ all_operations = <<>>
    /\ call_paths = <<>>
    /\ contexts = <<>>

NextSummary ==
    \/ TraceStart
    \/ TraceDescend
    \/ TraceAscend
    \/ AnalyzeLockContextTraced
    \/ AnalyzeLockContextNextPath
    \/ AnalyzePathLocksStep
    \/ AnalyzeLockContextAppend
    \/ GetLockSummaryReturn

SpecSummary == InitSummary /\ [][NextSummary]_vars

\* The call site is a call of a lock primitive that acquires.
IsAcquireSite(c) ==
    /\ <<c.callee, c.context>> \in LockCalls
    /\ \E k \in 1..Len(ClassifiedCalls[<<c.callee, c.context>>].found) :
           ClassifiedCalls[<<c.callee, c.context>>].found[k].op_type = "acquire"

IsReleaseSite(c) ==
    /\ <<c.callee, c.context>> \in LockCalls
    /\ \E k \in 1..Len(ClassifiedCalls[<<c.callee, c.context>>].found) :
           ClassifiedCalls[<<c.callee, c.context>>].found[k].op_type = "release"

\* The indices of the call sites of caller that name callee.
CallSiteIndices(caller, callee) ==
    { k \in 1..Len(sites) : sites[k].caller = caller /\ sites[k].callee = callee }

\* The line of the first listed call site of caller that names callee.
FirstCallLine(caller, callee) ==
    sites[CHOOSE k \in CallSiteIndices(caller, callee) :
              \A h \in CallSiteIndices(caller, callee) : k <= h].line

\* The call site c of the i-th function of the path is processed by the
\* walk: always above the direct caller; in the direct caller when it is on
\* a line before the call of the final function.
ProcessedOn(functions, i, c) ==
    \/ i < Len(functions) - 1
    \/ CallSiteIndices(functions[i], functions[Len(functions)]) = {}
    \/ c.line < FirstCallLine(functions[i], functions[Len(functions)])

\* Some acquire of a non-final function of the path is processed.
AcquireProcessedOn(functions) ==
    \E i \in 1..(Len(functions) - 1) :
        \E k \in 1..Len(sites) :
            /\ sites[k].caller = functions[i]
            /\ IsAcquireSite(sites[k])
            /\ ProcessedOn(functions, i, sites[k])

\* C27: an unfiltered path analysis returns a non-empty held set if and
\* only if an acquire was processed during the walk, whatever is released
\* afterwards; so get_lock_summary counts a path as protected exactly when
\* a non-final function of it acquires a lock, before its call of the
\* final function if it is the direct caller.
C27_ProtectedIffAnAcquireWasProcessed ==
    Returned("get_lock_summary") =>
        /\ \A i \in ContextIndices :
               contexts[i].held_locks # {} <=> AcquireProcessedOn(contexts[i].call_path)
        /\ result.protected_paths =
               Cardinality({ i \in 1..Len(call_paths) :
                               AcquireProcessedOn(call_paths[i].functions) })
        /\ result.unprotected_paths =
               Cardinality({ i \in 1..Len(call_paths) :
                               ~ AcquireProcessedOn(call_paths[i].functions) })

\* One caller takes L and releases it before its call of the target and is
\* counted as protected; the other does neither and is not.
C27_Witness ==
    /\ Returned("get_lock_summary")
    /\ result.protected_paths = 1
    /\ result.unprotected_paths = 1
    /\ \E i \in ContextIndices :
           /\ contexts[i].held_locks # {}
           /\ \E k \in 1..Len(sites) :
                  /\ sites[k].caller = contexts[i].call_path[1]
                  /\ IsReleaseSite(sites[k])
                  /\ sites[k].line < 15

\* A caller that takes L only after its call of the target is counted as
\* unprotected.
AcquireAfterTheCallDoesNotProtect ==
    /\ Returned("get_lock_summary")
    /\ result.unprotected_paths >= 1
    /\ \E i \in ContextIndices :
           /\ contexts[i].held_locks = {}
           /\ \E o \in Range(contexts[i].lock_operations) : o.operation = "acquire"

\* A path through a function between the outermost caller and the target
\* is protected by an acquire of the outermost caller, on whatever line.
OuterAcquireProtects ==
    /\ Returned("get_lock_summary")
    /\ \E i \in ContextIndices :
           /\ Len(contexts[i].call_path) = 3
           /\ contexts[i].held_locks # {}
           /\ \A o \in Range(contexts[i].lock_operations) : o.line = 20

LiteralNameAgreesWithTheFilter ==
    (Returned("check_lock_protection") /\ target_locks = <<"L">>) =>
        \A i \in ContextIndices :
            contexts[i].held_locks # {} <=> result[PathString(i)]

(***************************************************************************)
(* The reference line of the call-order filter                             *)
(***************************************************************************)
\* The lock named by the call site of a lock primitive.
SiteLockName(c) == ClassifiedCalls[<<c.callee, c.context>>].lock_name

\* The acquire sites of the non-final path functions that are processed.
ProcessedAcquireSites ==
    { k \in 1..Len(sites) :
        /\ IsAcquireSite(sites[k])
        /\ \E i \in 1..(Len(call_path) - 1) :
               /\ sites[k].caller = call_path[i]
               /\ ProcessedOn(call_path, i, sites[k]) }

\* C29: the reference line of the call-order filter is the line of the
\* first call site of the final function among the call sites of the
\* direct caller, in the order they are listed; when the direct caller has
\* no call site naming the final function, all of its lock operations take
\* part in the state tracking.  So every held lock is acquired at a site
\* that is processed in this sense, and an unfiltered query holds a lock
\* exactly when there is such a site.
C29_ReferenceLineIsTheFirstListedCall ==
    (pc = "done" /\ op = "analyze_path_locks") =>
        /\ \A n \in result.held_locks :
               \E k \in ProcessedAcquireSites : SiteLockName(sites[k]) = n
        /\ target_locks = <<>> =>
               (result.held_locks # {} <=> ProcessedAcquireSites # {})

\* The direct caller lists its call of the final function at line 15
\* before the one at line 10, and takes a lock at line 10: at or after the
\* line of the last listed call, before the line of the first.  The lock
\* is held.
C29_Witness ==
    /\ pc = "done" /\ op = "analyze_path_locks"
    /\ call_path = <<"A", "B">>
    /\ \E j, k \in CallSiteIndices("A", "B") :
           j < k /\ sites[j].line = 15 /\ sites[k].line = 10
    /\ FirstCallLine("A", "B") = 15
    /\ \E k \in ProcessedAcquireSites : sites[k].line = 10
    /\ result.held_locks # {}

\* The direct caller has no call site naming the final function and takes
\* locks at both lines: both are held.
NoCallSiteKeepsEveryOperation ==
    /\ pc = "done" /\ op = "analyze_path_locks"
    /\ call_path = <<"A", "B">>
    /\ target_locks = <<>>
    /\ CallSiteIndices("A", "B") = {}
    /\ \E j, k \in ProcessedAcquireSites : sites[j].line = 10 /\ sites[k].line = 15
    /\ Cardinality(result.held_locks) = 2

(***************************************************************************)
(* A target without callers                                                *)
(***************************************************************************)
\* No call site names the target and no assignment stores it in a field.
NoCallers ==
    /\ \A k \in 1..Len(sites) : sites[k].callee # target
    /\ \A k \in 1..Len(assigns) : assigns[k].function # target

\* The path of the target alone.
TargetAlone == <<CallPath(<<target>>, 0)>>

\* C30: for a target without callers, and without exclusions, trace_callers
\* and get_unique_call_chains do not raise and return the one path
\* [target] with depth 0; analyze_lock_context returns one context, with an
\* empty held set; get_lock_summary reports one path, unprotected.
C30_TargetWithoutCallersGivesOnePath ==
    (NoCallers /\ exclude_functions = {} /\ exclude_directories = {}) =>
        /\ pc # "raised"
        /\ (pc = "tracing" /\ stack = <<>>) => paths = TargetAlone
        /\ pc \in {"contexts", "walking", "done"} =>
               paths = TargetAlone /\ call_paths = TargetAlone
        /\ (ContextsReturned \/ pc = "done") =>
               /\ Len(contexts) = 1
               /\ contexts[1].function = target
               /\ contexts[1].call_path = <<target>>
               /\ contexts[1].held_locks = {}
               /\ contexts[1].lock_operations = <<>>
        /\ Returned("get_lock_summary") =>
               /\ result.total_call_paths = 1
               /\ result.unprotected_paths = 1
               /\ result.protected_paths = 0
               /\ result.locks_encountered = <<>>

\* get_lock_summary has returned for a target that no call site names,
\* in a database where other functions take locks.
C30_Witness ==
    /\ Returned("get_lock_summary")
    /\ NoCallers
    /\ \E k \in 1..Len(sites) : IsAcquireSite(sites[k])
    /\ paths = TargetAlone
    /\ Len(contexts) = 1
    /\ result.total_call_paths = 1
    /\ result.unprotected_paths = 1

\* The same for the empty database: the target is unknown.
UnknownTargetGivesOnePath ==
    /\ Returned("get_lock_summary")
    /\ sites = <<>>
    /\ result.total_call_paths = 1
====
